---- MODULE Spec2Model ----
(***************************************************************************)
(* StitchHub back office (tex-server): the Work, Attendance,               *)
(* WorkDescription, Export, Company and User tables and the request        *)
(* handlers that read and write them.                                      *)
(*                                                                         *)
(* A request is a process p.  Every `await` on the database is a point     *)
(* where another request may run, so a handler is a chain of steps, one    *)
(* per database round trip (or per group of round trips that no other      *)
(* request can separate observably).  prisma.$transaction is modelled as   *)
(* a database transaction under READ COMMITTED: its writes stay private    *)
(* to the request until the commit step, which applies all of them or,     *)
(* when a constraint of the schema is violated, none of them.              *)
(***************************************************************************)
EXTENDS Integers, FiniteSets, Sequences, TLC

VARIABLES users, works, attendance, descriptions, companies, exports,
          workSeq, attSeq, descSeq, compSeq, expSeq,
          expenses, salaryPayments, userSeq, expenseSeq, paySeq,
          req, last, issued, resA, resB

\* the Expense and SalaryPayment tables and the id sequences of User,
\* Expense and SalaryPayment
ledgerVars == <<expenses, salaryPayments, userSeq, expenseSeq, paySeq>>

vars == <<users, works, attendance, descriptions, companies, exports,
          workSeq, attSeq, descSeq, compSeq, expSeq, ledgerVars,
          req, last, issued, resA, resB>>

dbVars == <<users, works, attendance, descriptions, companies, exports,
            workSeq, attSeq, descSeq, compSeq, expSeq, ledgerVars>>

(***************************************************************************)
(* Bounds of the model.                                                    *)
(***************************************************************************)
\* total number of requests issued in one behaviour
MaxRequests == 3
\* the last instant a request date may name
LastInstant == 3
\* number of instants distinguished inside one UTC day
DayLen == 2
\* number of instants distinguished inside one calendar month
MonthLen == 2

Procs == {1, 2}
UserIds == {1, 2, 3}
\* a user id no row has: requests may name it
GhostUser == 4
Texts == {"cut", "sew"}
Quantities == {1, 2}
Prices == {1, 3}
Instants == 0 .. LastInstant

Role == {"OWNER", "WORKER"}
AttendanceStatus == {"PRESENT", "ABSENT", "HALF_DAY", "LEAVE"}

\* the salts bcrypt draws for a new hash
Salts == {1, 2}

\* bcrypt.hash(plain, 10) with the salt it drew
hash(plain, salt) == [salt |-> salt, digest |-> <<"bcrypt", salt, plain>>]

\* bcrypt.compare(plain, hashed): hashes plain with the salt stored in hashed
compare(plain, hashed) == hash(plain, hashed.salt).digest = hashed.digest

\* the seeded accounts: one OWNER, the sample WORKERs
SeedUsers ==
  { [id |-> 1, email |-> "admin", name |-> "n1", role |-> "OWNER", monthlySalary |-> 0,
     password |-> hash("Admin@123", 1)],
    [id |-> 2, email |-> "worker1", name |-> "n1", role |-> "WORKER", monthlySalary |-> 0,
     password |-> hash("Worker@123", 1)],
    [id |-> 3, email |-> "worker2", name |-> "n1", role |-> "WORKER", monthlySalary |-> 0,
     password |-> hash("Worker@123", 2)] }

(***************************************************************************)
(* Helpers over the tables.                                                *)
(***************************************************************************)
\* the number parseInt returns for a string that does not start with digits
NaN == -1

\* JavaScript truthiness of a number: 0 stands for undefined / null / 0
Truthy(n) == n # 0 /\ n # NaN

\* new Date(dateStr); setUTCHours(0,0,0,0): the start of the instant's UTC day
normalizeDate(t) == t - (t % DayLen)

Ids(rows) == { r.id : r \in rows }
Row(rows, id) == CHOOSE r \in rows : r.id = id

\* findUnique({ where: { text } }): the id of the row, 0 for null
DescriptionByText(text) ==
  IF \E d \in descriptions : d.text = text
    THEN (CHOOSE d \in descriptions : d.text = text).id
    ELSE 0

\* findUnique({ where: { date_userId } }) on the committed table
AttendanceByDateUser(date, userId) ==
  IF \E a \in attendance : a.date = date /\ a.userId = userId
    THEN (CHOOSE a \in attendance : a.date = date /\ a.userId = userId).id
    ELSE 0

\* include: { attendance: true } of a Work row: the row whose workId is the work
AttendanceOfWork(workId) ==
  IF \E a \in attendance : a.workId = workId
    THEN (CHOOSE a \in attendance : a.workId = workId).id
    ELSE 0

(***************************************************************************)
(* Constraints of the schema.                                              *)
(***************************************************************************)
\* CREATE UNIQUE INDEX "Attendance_date_userId_key"
AttendanceDateUserFree(date, userId) ==
  ~ \E a \in attendance : a.date = date /\ a.userId = userId

\* CREATE UNIQUE INDEX "WorkDescription_text_key"
DescriptionTextFree(text) == ~ \E d \in descriptions : d.text = text

\* The Work table of the current schema carries no unique index on
\* (date, userId): several Work rows per user and day are allowed.
WorkDateUserUnique == FALSE

WorkDateUserFree(date, userId) ==
  WorkDateUserUnique => ~ \E w \in works : w.date = date /\ w.userId = userId

\* Work_userId_fkey, Work_descriptionId_fkey
WorkForeignKeysHold(userId, descriptionId) ==
  userId \in Ids(users) /\ descriptionId \in Ids(descriptions)

(***************************************************************************)
(* Requests in flight and the record of the last completed request.        *)
(* Outcomes: "ok"; the exceptions the handlers throw ("BadRequest",        *)
(* "NotFound", "Forbidden", "Conflict"); and the Prisma errors of a        *)
(* rejected statement: "P2002_<index columns>" (unique index), "P2003"     *)
(* (foreign key), "P2025" (row to update or delete not found).             *)
(***************************************************************************)
NoReq == [op |-> "idle", step |-> "idle", sub |-> 0, role |-> "none",
          userId |-> 0, date |-> 0, id |-> 0, text |-> "", descId |-> 0,
          found |-> 0, status |-> "none", quantity |-> 0, pricePerUnit |-> 0,
          dtoDescId |-> 0, byText |-> FALSE, name |-> "", compId |-> 0,
          flag |-> FALSE, oldQuantity |-> 0, oldPrice |-> 0,
          email |-> "", dtoRole |-> "undefined", salary |-> 0,
          password |-> "", newPassword |-> "", type |-> "none",
          category |-> "", amount |-> 0, dtoUserId |-> 0, month |-> {},
          startDate |-> {}, endDate |-> {}, partial |-> {}]

NoLast == [op |-> "none", outcome |-> "none", sub |-> 0,
           role |-> "none", userId |-> 0, date |-> 0, id |-> 0, text |-> "",
           res |-> 0, dtoRole |-> "undefined", email |-> "",
           status |-> "none", password |-> "", dtoUserId |-> 0,
           type |-> "none"]

\* no read request was the last one answered
NoResponse == {}

\* the response of a request: its handler returned or threw
Done(p, outcome, res) ==
  /\ last' = [op |-> req[p].op, outcome |-> outcome,
              sub |-> req[p].sub, role |-> req[p].role,
              userId |-> req[p].userId, date |-> req[p].date,
              id |-> req[p].id, text |-> req[p].text, res |-> res,
              dtoRole |-> req[p].dtoRole, email |-> req[p].email,
              status |-> req[p].status, password |-> req[p].password,
              dtoUserId |-> req[p].dtoUserId, type |-> req[p].type]
  /\ req' = [req EXCEPT ![p] = NoReq]
  /\ resA' = NoResponse /\ resB' = NoResponse

\* the response of a request that ends in the step that started it
DoneAtOnce(p, r, outcome, res) ==
  /\ last' = [op |-> r.op, outcome |-> outcome,
              sub |-> r.sub, role |-> r.role,
              userId |-> r.userId, date |-> r.date,
              id |-> r.id, text |-> r.text, res |-> res,
              dtoRole |-> r.dtoRole, email |-> r.email, status |-> r.status,
              password |-> r.password, dtoUserId |-> r.dtoUserId,
              type |-> r.type]
  /\ req' = [req EXCEPT ![p] = NoReq]
  /\ resA' = NoResponse /\ resB' = NoResponse

Continue(p, r) ==
  /\ req' = [req EXCEPT ![p] = r]
  /\ last' = NoLast
  /\ resA' = NoResponse /\ resB' = NoResponse

\* a new request takes the first free slot
Idle(p) ==
  /\ req[p].op = "idle"
  /\ \A q \in Procs : q < p => req[q].op # "idle"
  /\ issued < MaxRequests

Init ==
  /\ users = SeedUsers
  /\ works = {}
  /\ attendance = {}
  /\ descriptions = {}
  /\ companies = {}
  /\ exports = {}
  /\ workSeq = 0 /\ attSeq = 0 /\ descSeq = 0 /\ compSeq = 0 /\ expSeq = 0
  /\ expenses = {} /\ salaryPayments = {}
  /\ userSeq = Cardinality(SeedUsers) /\ expenseSeq = 0 /\ paySeq = 0
  /\ req = [p \in Procs |-> NoReq]
  /\ last = NoLast
  /\ issued = 0
  /\ resA = NoResponse /\ resB = NoResponse


(***************************************************************************)
(* The exception filters of main.ts: the HTTP status of a response.        *)
(***************************************************************************)
\* codes of PrismaClientKnownRequestError: the eight the filter names and
\* two it does not
PrismaCodes ==
  {"P2000", "P2002", "P2003", "P2006", "P2011", "P2021", "P2022", "P2025",
   "P2014", "P2034"}

\* a filter that answers every database error as a server error
StatusAlwaysServerError(code) == 500

\* PrismaExceptionFilter.catch: switch (exception.code)
PrismaStatus(code) ==
  CASE code = "P2002" -> 409
    [] code = "P2003" -> 400
    [] code = "P2025" -> 404
    [] code = "P2011" -> 400
    [] code = "P2006" -> 400
    [] code = "P2000" -> 400
    [] code = "P2021" -> 500
    [] code = "P2022" -> 500
    [] OTHER -> 500

\* PrismaExceptionFilter.getErrorName
getErrorName(status) ==
  CASE status = 400 -> "Bad Request"
    [] status = 404 -> "Not Found"
    [] status = 409 -> "Conflict"
    [] OTHER -> "Internal Server Error"

\* response.status(status).json({ statusCode, error, ... })
PrismaExceptionFilter(code) ==
  [status |-> PrismaStatus(code), statusCode |-> PrismaStatus(code),
   error |-> getErrorName(PrismaStatus(code))]

\* exception.code of the Prisma error behind an outcome
PrismaCode(outcome) ==
  CASE outcome \in {"P2002_text", "P2002_date_userId", "P2002_name", "P2002_email"}
         -> "P2002"
    [] OTHER -> outcome

\* the status of the response: 200 / 201 of a handler that returned, the
\* status of the HttpException it threw (AllExceptionsFilter), 400 of
\* PrismaValidationExceptionFilter, PrismaExceptionFilter otherwise
HttpStatus(outcome) ==
  CASE outcome = "ok" -> 200
    [] outcome = "BadRequest" -> 400
    [] outcome = "Forbidden" -> 403
    [] outcome = "NotFound" -> 404
    [] outcome = "Conflict" -> 409
    [] outcome = "PrismaValidation" -> 400
    [] OTHER -> PrismaExceptionFilter(PrismaCode(outcome)).status

\* a request whose statement is going to fail with the code is in flight
StatementBegin(p, code) ==
  /\ Idle(p)
  /\ issued' = issued + 1
  /\ Continue(p, [NoReq EXCEPT !.op = "statement", !.step = "throw", !.text = code])
  /\ UNCHANGED dbVars

\* the statement throws PrismaClientKnownRequestError; the filter answers
KnownRequestError(p) ==
  /\ req[p].op = "statement" /\ req[p].step = "throw"
  /\ last' = [NoLast EXCEPT !.op = "statement", !.outcome = req[p].text]
  /\ req' = [req EXCEPT ![p] = NoReq]
  /\ resA' = PrismaExceptionFilter(req[p].text)
  /\ resB' = NoResponse
  /\ UNCHANGED <<dbVars, issued>>

(***************************************************************************)
(* Route guards: @UseGuards(JwtAuthGuard, RolesGuard) with the @Roles      *)
(* annotations of the controllers.                                         *)
(***************************************************************************)
\* handlers of UsersController annotated @Roles(Role.OWNER)
UsersOwnerRoutes == {"findAllUsers", "getUserStatistics", "createUser", "deleteUser"}

\* handlers of AttendanceController annotated @Roles('OWNER')
AttendanceOwnerRoutes ==
  {"getAttendanceByDate", "getAllAttendanceReport", "createAttendance",
   "updateAttendanceStatus"}

\* the handler of WorkController annotated @Roles('OWNER')
WorkOwnerRoutes == {"getAllWork"}

\* FinanceController carries @Roles(Role.OWNER) on the class: all its handlers
FinanceRoutes ==
  {"createCompanyExpense", "getCompanyExpenses", "getCompanyStatistics",
   "getCompanyCategories", "createHomeExpense", "getHomeExpenses",
   "getHomeStatistics", "getHomeCategories", "getAllExpenses",
   "getExpenseStatistics", "getCategories", "getExpenseById", "updateExpense",
   "deleteExpense"}

\* ExportsController carries @Roles(Role.OWNER) on the class: all its handlers
ExportsRoutes ==
  {"getExportDescriptions", "createExport", "getAllExports",
   "getExportStatistics", "getCompanies", "getExportById", "updateExport",
   "deleteExport"}

OwnerOnlyRoutes ==
  UsersOwnerRoutes \cup AttendanceOwnerRoutes \cup WorkOwnerRoutes
    \cup FinanceRoutes \cup ExportsRoutes

\* a controller without any @Roles annotation
RolesUnannotated(op) == {}

\* the roles the @Roles annotation of a route (or of its class) names
Roles(op) ==
  IF op \in OwnerOnlyRoutes THEN {"OWNER"}
  ELSE IF op = "updateUser" THEN {"OWNER", "WORKER"}
  ELSE {}

\* RolesGuard.canActivate: a route without required roles is open; otherwise
\* the role of req.user must be one of them (else 403 Forbidden)
RolesGuard(requiredRoles, role) == requiredRoles = {} \/ role \in requiredRoles

canActivate(op, role) == RolesGuard(Roles(op), role)

\* the guard refuses the request: the handler and its service never run
GuardRefuses(p, op, sub, role) ==
  /\ Idle(p)
  /\ ~ canActivate(op, role)
  /\ issued' = issued + 1
  /\ DoneAtOnce(p, [NoReq EXCEPT !.op = op, !.sub = sub, !.role = role],
                "Forbidden", 0)
  /\ UNCHANGED dbVars

\* a create that the unique index on text does not police
InsertDescriptionUnchecked(text) == TRUE

(***************************************************************************)
(* WorkService.createDescription: POST work/descriptions.                  *)
(***************************************************************************)
\* prisma.workDescription.create({ data: { text } }): the unique index on
\* text rejects a second row with the same text (P2002)
InsertDescriptionAllowed(text) == DescriptionTextFree(text)

InsertDescription(text) ==
  /\ descriptions' = descriptions \cup
       {[id |-> descSeq + 1, text |-> text, pricePerUnit |-> 0]}
  /\ descSeq' = descSeq + 1

\* findUnique by text; an existing row is returned at once
CreateDescriptionBegin(p, sub, role, text) ==
  /\ Idle(p)
  /\ issued' = issued + 1
  /\ LET r == [NoReq EXCEPT !.op = "createDescription", !.step = "desc_create",
                            !.sub = sub, !.role = role, !.text = text,
                            !.byText = TRUE]
         existing == DescriptionByText(text)
     IN IF Truthy(existing)
          THEN DoneAtOnce(p, r, "ok", existing)
          ELSE Continue(p, r)
  /\ UNCHANGED dbVars

\* the create that follows a lookup that found nothing
CreateDescriptionInsert(p) ==
  /\ req[p].op = "createDescription" /\ req[p].step = "desc_create"
  /\ IF InsertDescriptionAllowed(req[p].text)
       THEN /\ InsertDescription(req[p].text)
            /\ Done(p, "ok", descSeq + 1)
       ELSE /\ Done(p, "P2002_text", 0)
            /\ UNCHANGED <<descriptions, descSeq>>
  /\ UNCHANGED <<users, works, attendance, companies, exports,
                 workSeq, attSeq, compSeq, expSeq, issued, ledgerVars>>

(***************************************************************************)
(* WorkService.createWork: POST work.                                      *)
(***************************************************************************)
\* The controller passes req.user.sub; the service normalizes the date and
\* resolves the description: descriptionId wins, else the text is looked up.
\* a controller that lets the body name the user of the entry
UserIdOfBody(sub, dtoUserId) == IF Truthy(dtoUserId) THEN dtoUserId ELSE sub

\* WorkController.createWork: this.workService.createWork(req.user.sub, dto)
CreateWorkUserId(sub, dtoUserId) == sub

CreateWorkBegin(p, sub, role, date, quantity, pricePerUnit, descriptionId, description, dtoUserId) ==
  /\ Idle(p)
  /\ issued' = issued + 1
  /\ LET r == [NoReq EXCEPT !.op = "createWork", !.sub = sub, !.role = role,
                            !.userId = CreateWorkUserId(sub, dtoUserId),
                            !.dtoUserId = dtoUserId,
                            !.date = normalizeDate(date),
                            !.quantity = quantity, !.pricePerUnit = pricePerUnit,
                            !.descId = descriptionId, !.text = description,
                            !.dtoDescId = descriptionId]
         existing == DescriptionByText(description)
     IN IF ~Truthy(descriptionId) /\ description # ""
          THEN IF Truthy(existing)
                 THEN Continue(p, [r EXCEPT !.step = "cw_tx", !.descId = existing,
                                            !.byText = TRUE])
                 ELSE Continue(p, [r EXCEPT !.step = "cw_desc_create", !.byText = TRUE])
          ELSE IF ~Truthy(descriptionId)
                 THEN DoneAtOnce(p, r, "BadRequest", 0)
                 ELSE Continue(p, [r EXCEPT !.step = "cw_tx"])
  /\ UNCHANGED dbVars

\* getOrCreateDescription: the create after a lookup that found nothing
CreateWorkDescCreate(p) ==
  /\ req[p].op = "createWork" /\ req[p].step = "cw_desc_create"
  /\ IF InsertDescriptionAllowed(req[p].text)
       THEN /\ InsertDescription(req[p].text)
            /\ Continue(p, [req[p] EXCEPT !.step = "cw_tx", !.descId = descSeq + 1])
       ELSE /\ Done(p, "P2002_text", 0)
            /\ UNCHANGED <<descriptions, descSeq>>
  /\ UNCHANGED <<users, works, attendance, companies, exports,
                 workSeq, attSeq, compSeq, expSeq, issued, ledgerVars>>

\* Inside the transaction: tx.work.create (private until the commit; the
\* foreign keys are checked by the statement) and tx.attendance.findUnique,
\* which reads the committed table.
CreateWorkTxFind(p) ==
  /\ req[p].op = "createWork" /\ req[p].step = "cw_tx"
  /\ IF WorkForeignKeysHold(req[p].userId, req[p].descId)
       THEN Continue(p, [req[p] EXCEPT !.step = "cw_commit",
                           !.found = AttendanceByDateUser(req[p].date, req[p].userId)])
       ELSE Done(p, "P2003", 0)
  /\ UNCHANGED <<dbVars, issued>>

\* the Work row of the request, with the id the insert assigns
NewWork(r) ==
  [id |-> workSeq + 1, date |-> r.date, quantity |-> r.quantity,
   pricePerUnit |-> r.pricePerUnit,
   totalAmount |-> r.quantity * r.pricePerUnit,
   descriptionId |-> r.descId, userId |-> r.userId]

\* a createWork that leaves the status of an existing row as it was
MarkPresentSkipped(a) == a

\* if (existingAttendance) update status PRESENT, keeping its other columns
MarkPresent(a) == [a EXCEPT !.status = "PRESENT"]

\* a row linked to the Work row inserted before the new one
NewWorkAttendancePreviousLink(r) ==
  [id |-> attSeq + 1, date |-> r.date, userId |-> r.userId,
   workId |-> workSeq, status |-> "PRESENT"]

\* else create the row, linked to the new Work row
NewWorkAttendance(r) ==
  [id |-> attSeq + 1, date |-> r.date, userId |-> r.userId,
   workId |-> workSeq + 1, status |-> "PRESENT"]

\* an Attendance table without the unique index on (date, userId)
InsertAttendanceUnchecked(date, userId) == TRUE

\* tx.attendance.create is rejected by the unique index on (date, userId)
InsertAttendanceAllowed(date, userId) == AttendanceDateUserFree(date, userId)

\* createWork with its two writes sent outside a transaction: the Work row
\* stays when the attendance write is rejected
CreateWorkNoTransaction(p) ==
  /\ req[p].op = "createWork" /\ req[p].step = "cw_commit"
  /\ LET r == req[p] IN
     /\ works' = works \cup {NewWork(r)}
     /\ workSeq' = workSeq + 1
     /\ IF Truthy(r.found)
          THEN IF r.found \in Ids(attendance)
                 THEN /\ attendance' = (attendance \ {Row(attendance, r.found)})
                                        \cup {MarkPresent(Row(attendance, r.found))}
                      /\ attSeq' = attSeq
                      /\ Done(p, "ok", workSeq + 1)
                 ELSE /\ Done(p, "P2025", 0)
                      /\ UNCHANGED <<attendance, attSeq>>
          ELSE IF InsertAttendanceAllowed(r.date, r.userId)
                 THEN /\ attendance' = attendance \cup {NewWorkAttendance(r)}
                      /\ attSeq' = attSeq + 1
                      /\ Done(p, "ok", workSeq + 1)
                 ELSE /\ Done(p, "P2002_date_userId", 0)
                      /\ UNCHANGED <<attendance, attSeq>>
  /\ UNCHANGED <<users, descriptions, companies, exports,
                 descSeq, compSeq, expSeq, issued, ledgerVars>>

\* The attendance write and the commit.  A failing statement rolls the
\* transaction back: the Work row is not stored either.
CreateWorkTxCommit(p) ==
  /\ req[p].op = "createWork" /\ req[p].step = "cw_commit"
  /\ LET r == req[p] IN
     IF ~WorkForeignKeysHold(r.userId, r.descId) \/ ~WorkDateUserFree(r.date, r.userId)
       THEN /\ Done(p, IF WorkDateUserFree(r.date, r.userId) THEN "P2003"
                                                              ELSE "P2002_work_date_userId", 0)
            /\ UNCHANGED <<works, attendance, workSeq, attSeq>>
     ELSE IF Truthy(r.found)
       THEN IF r.found \in Ids(attendance)
              THEN /\ works' = works \cup {NewWork(r)}
                   /\ workSeq' = workSeq + 1
                   /\ attendance' = (attendance \ {Row(attendance, r.found)})
                                     \cup {MarkPresent(Row(attendance, r.found))}
                   /\ attSeq' = attSeq
                   /\ Done(p, "ok", workSeq + 1)
              ELSE /\ Done(p, "P2025", 0)
                   /\ UNCHANGED <<works, attendance, workSeq, attSeq>>
       ELSE IF InsertAttendanceAllowed(r.date, r.userId)
              THEN /\ works' = works \cup {NewWork(r)}
                   /\ workSeq' = workSeq + 1
                   /\ attendance' = attendance \cup {NewWorkAttendance(r)}
                   /\ attSeq' = attSeq + 1
                   /\ Done(p, "ok", workSeq + 1)
              ELSE /\ Done(p, "P2002_date_userId", 0)
                   /\ UNCHANGED <<works, attendance, workSeq, attSeq>>
  /\ UNCHANGED <<users, descriptions, companies, exports,
                 descSeq, compSeq, expSeq, issued, ledgerVars>>


(***************************************************************************)
(* Ownership rule of getWorkById, updateWork and deleteWork.               *)
(***************************************************************************)
\* handlers without the ownership rule
AccessNeverDenied(role, workUserId, userId) == FALSE

\* if (role === 'WORKER' && work.userId !== userId) throw Forbidden
AccessDenied(role, workUserId, userId) == role = "WORKER" /\ workUserId # userId

(***************************************************************************)
(* WorkService.getWorkById: GET work/:id.                                  *)
(***************************************************************************)
GetWorkById(p, sub, role, id) ==
  /\ Idle(p)
  /\ issued' = issued + 1
  /\ LET r == [NoReq EXCEPT !.op = "getWorkById", !.sub = sub, !.role = role,
                            !.id = id]
     IN IF id \notin Ids(works)
          THEN DoneAtOnce(p, r, "NotFound", 0)
          ELSE IF AccessDenied(role, Row(works, id).userId, sub)
                 THEN DoneAtOnce(p, r, "Forbidden", 0)
                 ELSE DoneAtOnce(p, [r EXCEPT !.userId = Row(works, id).userId], "ok", id)
  /\ UNCHANGED dbVars

(***************************************************************************)
(* WorkService.deleteWork: DELETE work/:id.                                *)
(***************************************************************************)
\* findUnique with include: { attendance: true }, then the ownership rule
DeleteWorkBegin(p, sub, role, id) ==
  /\ Idle(p)
  /\ issued' = issued + 1
  /\ LET r == [NoReq EXCEPT !.op = "deleteWork", !.step = "dw_commit",
                            !.sub = sub, !.role = role, !.id = id]
     IN IF id \notin Ids(works)
          THEN DoneAtOnce(p, r, "NotFound", 0)
          ELSE IF AccessDenied(role, Row(works, id).userId, sub)
                 THEN DoneAtOnce(p, r, "Forbidden", 0)
                 ELSE Continue(p, [r EXCEPT !.userId = Row(works, id).userId,
                                            !.date = Row(works, id).date,
                                            !.found = AttendanceOfWork(id)])
  /\ UNCHANGED dbVars

\* data: { workId: null, status: 'ABSENT' }
RevertAttendance(a) == [a EXCEPT !.workId = 0, !.status = "ABSENT"]

\* Attendance_workId_fkey ... ON DELETE SET NULL
ClearWorkLinks(rows, workId) ==
  { IF a.workId = workId THEN [a EXCEPT !.workId = 0] ELSE a : a \in rows }

\* The transaction: revert the attendance row read with the Work row (when
\* there was one), delete the Work row, commit.  An update or delete of a row
\* that is gone (P2025) rolls the transaction back.
DeleteWorkTxCommit(p) ==
  /\ req[p].op = "deleteWork" /\ req[p].step = "dw_commit"
  /\ LET r == req[p]
         reverted == IF Truthy(r.found) /\ r.found \in Ids(attendance)
                       THEN (attendance \ {Row(attendance, r.found)})
                              \cup {RevertAttendance(Row(attendance, r.found))}
                       ELSE attendance
     IN IF (Truthy(r.found) /\ r.found \notin Ids(attendance)) \/ r.id \notin Ids(works)
          THEN /\ Done(p, "P2025", 0)
               /\ UNCHANGED <<works, attendance>>
          ELSE /\ attendance' = ClearWorkLinks(reverted, r.id)
               /\ works' = works \ {Row(works, r.id)}
               /\ Done(p, "ok", r.id)
  /\ UNCHANGED <<users, descriptions, companies, exports,
                 workSeq, attSeq, descSeq, compSeq, expSeq, issued, ledgerVars>>

(***************************************************************************)
(* WorkService.updateWork: PUT work/:id.                                   *)
(***************************************************************************)
\* findUnique, the ownership rule, then the description: descriptionId wins,
\* else a given text is looked up.  quantity / pricePerUnit 0 stand for a
\* field the body does not carry.
UpdateWorkBegin(p, sub, role, id, quantity, pricePerUnit, descriptionId, description) ==
  /\ Idle(p)
  /\ issued' = issued + 1
  /\ LET r == [NoReq EXCEPT !.op = "updateWork", !.sub = sub, !.role = role,
                            !.id = id, !.descId = descriptionId, !.text = description,
                            !.dtoDescId = descriptionId]
         existing == DescriptionByText(description)
     IN IF id \notin Ids(works)
          THEN DoneAtOnce(p, r, "NotFound", 0)
          ELSE IF AccessDenied(role, Row(works, id).userId, sub)
            THEN DoneAtOnce(p, r, "Forbidden", 0)
            ELSE LET w == Row(works, id)
                     \* dto.quantity ?? work.quantity, from the row read here
                     r2 == [r EXCEPT !.userId = w.userId, !.date = w.date,
                               !.quantity = IF quantity # 0 THEN quantity ELSE w.quantity,
                               !.pricePerUnit = IF pricePerUnit # 0 THEN pricePerUnit
                                                                   ELSE w.pricePerUnit]
                 IN IF ~Truthy(descriptionId) /\ description # ""
                      THEN IF Truthy(existing)
                             THEN Continue(p, [r2 EXCEPT !.step = "uw_write", !.descId = existing,
                                                         !.byText = TRUE])
                             ELSE Continue(p, [r2 EXCEPT !.step = "uw_desc_create",
                                                         !.byText = TRUE])
                      ELSE Continue(p, [r2 EXCEPT !.step = "uw_write"])
  /\ UNCHANGED dbVars

UpdateWorkDescCreate(p) ==
  /\ req[p].op = "updateWork" /\ req[p].step = "uw_desc_create"
  /\ IF InsertDescriptionAllowed(req[p].text)
       THEN /\ InsertDescription(req[p].text)
            /\ Continue(p, [req[p] EXCEPT !.step = "uw_write", !.descId = descSeq + 1])
       ELSE /\ Done(p, "P2002_text", 0)
            /\ UNCHANGED <<descriptions, descSeq>>
  /\ UNCHANGED <<users, works, attendance, companies, exports,
                 workSeq, attSeq, compSeq, expSeq, issued, ledgerVars>>

\* an update that writes the two factors and keeps the stored total
UpdatedWorkStaleTotal(w, r) ==
  [w EXCEPT !.quantity = r.quantity, !.pricePerUnit = r.pricePerUnit,
            !.descriptionId = IF Truthy(r.descId) THEN r.descId ELSE w.descriptionId]

\* updateData: quantity, pricePerUnit, totalAmount, and descriptionId if set
UpdatedWork(w, r) ==
  [w EXCEPT !.quantity = r.quantity, !.pricePerUnit = r.pricePerUnit,
            !.totalAmount = r.quantity * r.pricePerUnit,
            !.descriptionId = IF Truthy(r.descId) THEN r.descId ELSE w.descriptionId]

\* prisma.work.update({ where: { id }, data: updateData })
UpdateWorkWrite(p) ==
  /\ req[p].op = "updateWork" /\ req[p].step = "uw_write"
  /\ LET r == req[p] IN
     IF r.id \notin Ids(works)
       THEN Done(p, "P2025", 0) /\ UNCHANGED works
       ELSE IF Truthy(r.descId) /\ r.descId \notin Ids(descriptions)
         THEN Done(p, "P2003", 0) /\ UNCHANGED works
         ELSE /\ works' = (works \ {Row(works, r.id)}) \cup {UpdatedWork(Row(works, r.id), r)}
              /\ Done(p, "ok", r.id)
  /\ UNCHANGED <<users, attendance, descriptions, companies, exports,
                 workSeq, attSeq, descSeq, compSeq, expSeq, issued, ledgerVars>>

(***************************************************************************)
(* AttendanceService.createAttendance: POST attendance.                    *)
(***************************************************************************)
\* data: { date, userId, status }: no work link
\* a manual record that ignores dto.status
ManualAttendancePresent(r) ==
  [id |-> attSeq + 1, date |-> r.date, userId |-> r.userId,
   workId |-> 0, status |-> "PRESENT"]

\* data: { date: normalizedDate, userId: dto.userId, status: dto.status }
ManualAttendance(r) ==
  [id |-> attSeq + 1, date |-> r.date, userId |-> r.userId,
   workId |-> 0, status |-> r.status]

\* the user lookup and the lookup of an existing row
CreateAttendanceBegin(p, sub, role, date, userId, status) ==
  /\ Idle(p)
  /\ canActivate("createAttendance", role)
  /\ issued' = issued + 1
  /\ LET r == [NoReq EXCEPT !.op = "createAttendance", !.step = "ca_create",
                            !.sub = sub, !.role = role, !.userId = userId,
                            !.date = normalizeDate(date), !.status = status]
     IN IF userId \notin Ids(users)
          THEN DoneAtOnce(p, r, "NotFound", 0)
          ELSE IF Truthy(AttendanceByDateUser(normalizeDate(date), userId))
                 THEN DoneAtOnce(p, r, "Conflict", 0)
                 ELSE Continue(p, r)
  /\ UNCHANGED dbVars

\* prisma.attendance.create
CreateAttendanceInsert(p) ==
  /\ req[p].op = "createAttendance" /\ req[p].step = "ca_create"
  /\ LET r == req[p] IN
     IF r.userId \notin Ids(users)
       THEN Done(p, "P2003", 0) /\ UNCHANGED <<attendance, attSeq>>
       ELSE IF InsertAttendanceAllowed(r.date, r.userId)
         THEN /\ attendance' = attendance \cup {ManualAttendance(r)}
              /\ attSeq' = attSeq + 1
              /\ Done(p, "ok", attSeq + 1)
         ELSE Done(p, "P2002_date_userId", 0) /\ UNCHANGED <<attendance, attSeq>>
  /\ UNCHANGED <<users, works, descriptions, companies, exports,
                 workSeq, descSeq, compSeq, expSeq, issued, ledgerVars>>

(***************************************************************************)
(* AttendanceService.updateAttendanceStatus: PUT attendance/:date/status.  *)
(***************************************************************************)
UpdateAttendanceStatusBegin(p, sub, role, date, userId, status) ==
  /\ Idle(p)
  /\ canActivate("updateAttendanceStatus", role)
  /\ issued' = issued + 1
  /\ LET r == [NoReq EXCEPT !.op = "updateAttendanceStatus", !.step = "ua_write",
                            !.sub = sub, !.role = role, !.userId = userId,
                            !.date = normalizeDate(date), !.status = status]
     IN IF userId \notin Ids(users)
          THEN DoneAtOnce(p, r, "NotFound", 0)
          ELSE Continue(p, [r EXCEPT !.found =
                                 AttendanceByDateUser(normalizeDate(date), userId)])
  /\ UNCHANGED dbVars

\* an update that also drops the link to the Work row
WithStatusUnlinked(a, status) == [a EXCEPT !.status = status, !.workId = 0]

\* data: { status: dto.status }
WithStatus(a, status) == [a EXCEPT !.status = status]

\* if (existing) update by id else create
UpdateAttendanceStatusWrite(p) ==
  /\ req[p].op = "updateAttendanceStatus" /\ req[p].step = "ua_write"
  /\ LET r == req[p] IN
     IF Truthy(r.found)
       THEN IF r.found \in Ids(attendance)
              THEN /\ attendance' = (attendance \ {Row(attendance, r.found)})
                                     \cup {WithStatus(Row(attendance, r.found), r.status)}
                   /\ attSeq' = attSeq
                   /\ Done(p, "ok", r.found)
              ELSE Done(p, "P2025", 0) /\ UNCHANGED <<attendance, attSeq>>
       ELSE IF r.userId \notin Ids(users)
         THEN Done(p, "P2003", 0) /\ UNCHANGED <<attendance, attSeq>>
         ELSE IF InsertAttendanceAllowed(r.date, r.userId)
           THEN /\ attendance' = attendance \cup {ManualAttendance(r)}
                /\ attSeq' = attSeq + 1
                /\ Done(p, "ok", attSeq + 1)
           ELSE Done(p, "P2002_date_userId", 0) /\ UNCHANGED <<attendance, attSeq>>
  /\ UNCHANGED <<users, works, descriptions, companies, exports,
                 workSeq, descSeq, compSeq, expSeq, issued, ledgerVars>>

(***************************************************************************)
(* ExportsService: POST exports, PUT exports/:id.                          *)
(***************************************************************************)
\* company.findUnique({ where: { name } }): the id of the row, 0 for null
CompanyByName(name) ==
  IF \E c \in companies : c.name = name
    THEN (CHOOSE c \in companies : c.name = name).id
    ELSE 0

\* company.create: name is the unique key findUnique looks rows up by
InsertCompanyAllowed(name) == ~ \E c \in companies : c.name = name

InsertCompany(name) ==
  /\ companies' = companies \cup {[id |-> compSeq + 1, name |-> name]}
  /\ compSeq' = compSeq + 1

\* workDescription.update({ where: { id }, data: { pricePerUnit } })
WithPrice(rows, id, price) ==
  { IF d.id = id THEN [d EXCEPT !.pricePerUnit = price] ELSE d : d \in rows }

\* getOrCreateDescription(text, descriptionId), its lookups: an existing
\* descriptionId wins, else a given text is looked up, else BadRequest.
\* The result is the request after the lookups.
ExportDescriptionLookup(r, stepFound, stepCreate) ==
  IF Truthy(r.dtoDescId) /\ r.dtoDescId \in Ids(descriptions)
    THEN [r EXCEPT !.step = stepFound, !.descId = r.dtoDescId]
    ELSE IF r.text # ""
      THEN IF Truthy(DescriptionByText(r.text))
             THEN [r EXCEPT !.step = stepFound, !.byText = TRUE,
                            !.descId = DescriptionByText(r.text)]
             ELSE [r EXCEPT !.step = stepCreate, !.byText = TRUE]
      ELSE [r EXCEPT !.step = "bad_request"]

CreateExportBegin(p, sub, role, date, companyName, quantity, pricePerUnit, descriptionId, description, updateDescriptionPrice) ==
  /\ Idle(p)
  /\ canActivate("createExport", role)
  /\ issued' = issued + 1
  /\ LET r == [NoReq EXCEPT !.op = "createExport", !.sub = sub, !.role = role,
                            !.date = normalizeDate(date), !.name = companyName,
                            !.quantity = quantity, !.pricePerUnit = pricePerUnit,
                            !.dtoDescId = descriptionId, !.text = description,
                            !.flag = updateDescriptionPrice]
         r2 == ExportDescriptionLookup(r, "ce_price", "ce_desc_create")
     IN IF r2.step = "bad_request"
          THEN DoneAtOnce(p, r, "BadRequest", 0)
          ELSE Continue(p, r2)
  /\ UNCHANGED dbVars

CreateExportDescCreate(p) ==
  /\ req[p].op = "createExport" /\ req[p].step = "ce_desc_create"
  /\ IF InsertDescriptionAllowed(req[p].text)
       THEN /\ InsertDescription(req[p].text)
            /\ Continue(p, [req[p] EXCEPT !.step = "ce_price", !.descId = descSeq + 1])
       ELSE /\ Done(p, "P2002_text", 0)
            /\ UNCHANGED <<descriptions, descSeq>>
  /\ UNCHANGED <<users, works, attendance, companies, exports,
                 workSeq, attSeq, compSeq, expSeq, issued, ledgerVars>>

\* the optional price update of the description, then getOrCreateCompany's lookup
CreateExportPrice(p) ==
  /\ req[p].op = "createExport" /\ req[p].step = "ce_price"
  /\ LET r == req[p] IN
     /\ descriptions' = IF r.flag /\ Truthy(r.descId) /\ Truthy(r.pricePerUnit)
                          THEN WithPrice(descriptions, r.descId, r.pricePerUnit)
                          ELSE descriptions
     /\ IF Truthy(CompanyByName(r.name))
          THEN Continue(p, [r EXCEPT !.step = "ce_export", !.compId = CompanyByName(r.name)])
          ELSE Continue(p, [r EXCEPT !.step = "ce_company_create"])
  /\ UNCHANGED <<users, works, attendance, companies, exports,
                 workSeq, attSeq, descSeq, compSeq, expSeq, issued, ledgerVars>>

CreateExportCompanyCreate(p) ==
  /\ req[p].op = "createExport" /\ req[p].step = "ce_company_create"
  /\ IF InsertCompanyAllowed(req[p].name)
       THEN /\ InsertCompany(req[p].name)
            /\ Continue(p, [req[p] EXCEPT !.step = "ce_export", !.compId = compSeq + 1])
       ELSE /\ Done(p, "P2002_name", 0)
            /\ UNCHANGED <<companies, compSeq>>
  /\ UNCHANGED <<users, works, attendance, descriptions, exports,
                 workSeq, attSeq, descSeq, expSeq, issued, ledgerVars>>

NewExport(r) ==
  [id |-> expSeq + 1, date |-> r.date, companyId |-> r.compId,
   quantity |-> r.quantity, pricePerUnit |-> r.pricePerUnit,
   totalAmount |-> r.quantity * r.pricePerUnit, descriptionId |-> r.descId]

\* prisma.export.create
CreateExportInsert(p) ==
  /\ req[p].op = "createExport" /\ req[p].step = "ce_export"
  /\ exports' = exports \cup {NewExport(req[p])}
  /\ expSeq' = expSeq + 1
  /\ Done(p, "ok", expSeq + 1)
  /\ UNCHANGED <<users, works, attendance, descriptions, companies,
                 workSeq, attSeq, descSeq, compSeq, issued, ledgerVars>>

\* an update that resolves (and creates) the company before it looks the
\* export up
UpdateExportCompanyFirst(p, sub, role, id, date, companyName, quantity, pricePerUnit, descriptionId, description, updateDescriptionPrice) ==
  /\ Idle(p)
  /\ canActivate("updateExport", role)
  /\ issued' = issued + 1
  /\ IF companyName # "" /\ InsertCompanyAllowed(companyName)
       THEN InsertCompany(companyName)
       ELSE UNCHANGED <<companies, compSeq>>
  /\ LET r == [NoReq EXCEPT !.op = "updateExport", !.sub = sub, !.role = role,
                            !.id = id, !.name = companyName,
                            !.date = IF date < 0 THEN date ELSE normalizeDate(date),
                            !.quantity = quantity, !.pricePerUnit = pricePerUnit,
                            !.dtoDescId = descriptionId, !.text = description,
                            !.flag = updateDescriptionPrice]
     IN IF id \notin Ids(exports)
          THEN DoneAtOnce(p, r, "NotFound", 0)
          ELSE LET e == Row(exports, id)
               IN Continue(p, [r EXCEPT !.oldQuantity = e.quantity,
                                        !.oldPrice = e.pricePerUnit, !.step = "ue_desc",
                                        !.compId = IF companyName = "" THEN 0
                                                   ELSE IF Truthy(CompanyByName(companyName))
                                                     THEN CompanyByName(companyName)
                                                     ELSE compSeq + 1])
  /\ UNCHANGED <<users, works, attendance, descriptions, exports,
                 workSeq, attSeq, descSeq, expSeq, ledgerVars>>

\* getExportById, then getOrCreateCompany's lookup when a name is given.
\* date -1, quantity 0, pricePerUnit 0, companyName "" stand for fields the
\* body does not carry; oldQuantity and oldPrice keep the values read.
UpdateExportBegin(p, sub, role, id, date, companyName, quantity, pricePerUnit, descriptionId, description, updateDescriptionPrice) ==
  /\ Idle(p)
  /\ canActivate("updateExport", role)
  /\ issued' = issued + 1
  /\ LET r == [NoReq EXCEPT !.op = "updateExport", !.sub = sub, !.role = role,
                            !.id = id, !.name = companyName,
                            !.date = IF date < 0 THEN date ELSE normalizeDate(date),
                            !.quantity = quantity, !.pricePerUnit = pricePerUnit,
                            !.dtoDescId = descriptionId, !.text = description,
                            !.flag = updateDescriptionPrice]
     IN IF id \notin Ids(exports)
          THEN DoneAtOnce(p, r, "NotFound", 0)
          ELSE LET e == Row(exports, id)
                   r2 == [r EXCEPT !.oldQuantity = e.quantity, !.oldPrice = e.pricePerUnit]
               IN IF companyName # ""
                    THEN IF Truthy(CompanyByName(companyName))
                           THEN Continue(p, [r2 EXCEPT !.step = "ue_desc",
                                                       !.compId = CompanyByName(companyName)])
                           ELSE Continue(p, [r2 EXCEPT !.step = "ue_company_create"])
                    ELSE Continue(p, [r2 EXCEPT !.step = "ue_desc"])
  /\ UNCHANGED dbVars

UpdateExportCompanyCreate(p) ==
  /\ req[p].op = "updateExport" /\ req[p].step = "ue_company_create"
  /\ IF InsertCompanyAllowed(req[p].name)
       THEN /\ InsertCompany(req[p].name)
            /\ Continue(p, [req[p] EXCEPT !.step = "ue_desc", !.compId = compSeq + 1])
       ELSE /\ Done(p, "P2002_name", 0)
            /\ UNCHANGED <<companies, compSeq>>
  /\ UNCHANGED <<users, works, attendance, descriptions, exports,
                 workSeq, attSeq, descSeq, expSeq, issued, ledgerVars>>

\* if (dto.description || dto.descriptionId): the lookups of
\* getOrCreateDescription and, when a row was found, the optional price update
UpdateExportDesc(p) ==
  /\ req[p].op = "updateExport" /\ req[p].step = "ue_desc"
  /\ LET r == req[p]
         r2 == ExportDescriptionLookup(r, "ue_write", "ue_desc_create")
     IN IF r.text = "" /\ ~Truthy(r.dtoDescId)
          THEN Continue(p, [r EXCEPT !.step = "ue_write"]) /\ UNCHANGED descriptions
          ELSE IF r2.step = "bad_request"
            THEN Done(p, "BadRequest", 0) /\ UNCHANGED descriptions
            ELSE /\ Continue(p, r2)
                 /\ descriptions' =
                      IF r2.step = "ue_write" /\ r.flag /\ Truthy(r.pricePerUnit)
                        THEN WithPrice(descriptions, r2.descId, r.pricePerUnit)
                        ELSE descriptions
  /\ UNCHANGED <<users, works, attendance, companies, exports,
                 workSeq, attSeq, descSeq, compSeq, expSeq, issued, ledgerVars>>

\* the create after a lookup that found nothing, and the optional price update
UpdateExportDescCreate(p) ==
  /\ req[p].op = "updateExport" /\ req[p].step = "ue_desc_create"
  /\ LET r == req[p] IN
     IF InsertDescriptionAllowed(r.text)
       THEN /\ descriptions' = descriptions \cup
                 {[id |-> descSeq + 1, text |-> r.text,
                   pricePerUnit |-> IF r.flag /\ Truthy(r.pricePerUnit)
                                      THEN r.pricePerUnit ELSE 0]}
            /\ descSeq' = descSeq + 1
            /\ Continue(p, [r EXCEPT !.step = "ue_write", !.descId = descSeq + 1])
       ELSE /\ Done(p, "P2002_text", 0)
            /\ UNCHANGED <<descriptions, descSeq>>
  /\ UNCHANGED <<users, works, attendance, companies, exports,
                 workSeq, attSeq, compSeq, expSeq, issued, ledgerVars>>

\* the data object of updateExport applied to the stored row; the total is
\* recomputed from the row read by getExportById
UpdatedExport(e, r) ==
  [e EXCEPT !.date = IF r.date >= 0 THEN r.date ELSE e.date,
            !.companyId = IF Truthy(r.compId) THEN r.compId ELSE e.companyId,
            !.quantity = IF Truthy(r.quantity) THEN r.quantity ELSE e.quantity,
            !.pricePerUnit = IF Truthy(r.pricePerUnit) THEN r.pricePerUnit
                                                        ELSE e.pricePerUnit,
            !.descriptionId = IF Truthy(r.descId) THEN r.descId ELSE e.descriptionId,
            !.totalAmount =
               IF Truthy(r.quantity) \/ Truthy(r.pricePerUnit)
                 THEN (IF Truthy(r.quantity) THEN r.quantity ELSE r.oldQuantity)
                        * (IF Truthy(r.pricePerUnit) THEN r.pricePerUnit ELSE r.oldPrice)
                 ELSE e.totalAmount]

\* prisma.export.update({ where: { id }, data })
UpdateExportWrite(p) ==
  /\ req[p].op = "updateExport" /\ req[p].step = "ue_write"
  /\ LET r == req[p] IN
     IF r.id \notin Ids(exports)
       THEN Done(p, "P2025", 0) /\ UNCHANGED exports
       ELSE /\ exports' = (exports \ {Row(exports, r.id)})
                            \cup {UpdatedExport(Row(exports, r.id), r)}
            /\ Done(p, "ok", r.id)
  /\ UNCHANGED <<users, works, attendance, descriptions, companies,
                 workSeq, attSeq, descSeq, compSeq, expSeq, issued, ledgerVars>>

(***************************************************************************)
(* ExportsService.deleteExport: DELETE exports/:id.                        *)
(***************************************************************************)
\* getExportById
DeleteExportBegin(p, sub, role, id) ==
  /\ Idle(p)
  /\ canActivate("deleteExport", role)
  /\ issued' = issued + 1
  /\ LET r == [NoReq EXCEPT !.op = "deleteExport", !.step = "de_delete",
                            !.sub = sub, !.role = role, !.id = id]
     IN IF id \notin Ids(exports)
          THEN DoneAtOnce(p, r, "NotFound", 0)
          ELSE Continue(p, r)
  /\ UNCHANGED dbVars

\* prisma.export.delete({ where: { id } })
DeleteExportDelete(p) ==
  /\ req[p].op = "deleteExport" /\ req[p].step = "de_delete"
  /\ IF req[p].id \in Ids(exports)
       THEN /\ exports' = exports \ {Row(exports, req[p].id)}
            /\ Done(p, "ok", req[p].id)
       ELSE Done(p, "P2025", 0) /\ UNCHANGED exports
  /\ UNCHANGED <<users, works, attendance, descriptions, companies,
                 workSeq, attSeq, descSeq, compSeq, expSeq, issued, ledgerVars>>

(***************************************************************************)
(* Read requests.  A response is [param, outcome, body, userIds]: the      *)
(* userId value the request carried, how it ended, the response body, and  *)
(* the users whose rows the body was computed from.  An optional value     *)
(* (null, undefined) is a set with no element.                             *)
(***************************************************************************)
\* orderBy: the rows of S as the sequence in which each row comes before
\* the rows that the relation before puts after it
OrderBy(S, before) ==
  CHOOSE s \in [1 .. Cardinality(S) -> S] :
    \A i, j \in 1 .. Cardinality(S) : i < j => s[i] # s[j] /\ <<s[i], s[j]>> \in before

\* _sum of a column over the selected rows
RECURSIVE SumField(_, _)
SumField(S, field) ==
  IF S = {} THEN 0
  ELSE LET r == CHOOSE x \in S : TRUE IN r[field] + SumField(S \ {r}, field)

\* _max, _min of a column: no element when no row is selected
MaxField(S, field) ==
  { m \in { r[field] : r \in S } : \A r \in S : r[field] <= m }
MinField(S, field) ==
  { m \in { r[field] : r \in S } : \A r \in S : r[field] >= m }

\* x || 0 for an optional number
OrZero(opt) == IF opt = {} THEN 0 ELSE CHOOSE x \in opt : TRUE

\* Math.round(a / b) for a >= 0, b > 0
RoundDiv(a, b) == (2 * a + b) \div (2 * b)

\* take: 30 of the daily breakdown
DailyTake == 30

\* include: { description: true } of a Work row
WorkWithDescription(w) ==
  [row |-> w, description |-> { d \in descriptions : d.id = w.descriptionId }]

\* include: { user: { select: id, name, email }, work: { include: description } }
AttendanceWithIncludes(a) ==
  [row |-> a,
   user |-> { [id |-> u.id, name |-> u.name, email |-> u.email] :
                u \in { x \in users : x.id = a.userId } },
   work |-> { WorkWithDescription(w) : w \in { x \in works : x.id = a.workId } }]

\* WorkService.getWorkByUserAndDate
getWorkByUserAndDate(userId, date) ==
  LET S == { w \in works : w.date = normalizeDate(date) /\ w.userId = userId }
      rows == { [row |-> w,
                 description |-> { d \in descriptions : d.id = w.descriptionId },
                 attendance |-> { a \in attendance : a.workId = w.id }] : w \in S }
      NewerFirst == { <<a, b>> \in rows \X rows : a.row.id > b.row.id }
  IN [outcome |-> "ok", body |-> OrderBy(rows, NewerFirst),
      userIds |-> { w.userId : w \in S }
                    \cup { a.userId : a \in { x \in attendance : x.workId \in Ids(S) } }]

\* the where object of getWorkStatistics
StatisticsWhere(userId, startDate, endDate) ==
  { w \in works :
      /\ Truthy(userId) => w.userId = userId
      /\ \A t \in startDate : w.date >= normalizeDate(t)
      /\ \A t \in endDate : w.date <= normalizeDate(t) }

\* WorkService.getWorkStatistics; averagePricePerUnit and averageEarning
\* are in hundredths
getWorkStatistics(userId, startDate, endDate) ==
  LET S == StatisticsWhere(userId, startDate, endDate)
      n == Cardinality(S)
      Avg(field, scale) == IF n = 0 THEN 0 ELSE RoundDiv(scale * SumField(S, field), n)
      days == { [date |-> d,
                 totalAmount |-> SumField({ w \in S : w.date = d }, "totalAmount"),
                 quantity |-> SumField({ w \in S : w.date = d }, "quantity"),
                 count |-> Cardinality({ w \in S : w.date = d })] :
                d \in { w.date : w \in S } }
      LaterFirst == { <<a, b>> \in days \X days : a.date > b.date }
      daily == OrderBy(days, LaterFirst)
      UserName(id) == IF id \in Ids(users) THEN Row(users, id).name ELSE "Unknown"
      byWorker == { [userId |-> u,
                     totalAmount |-> SumField({ w \in S : w.userId = u }, "totalAmount"),
                     quantity |-> SumField({ w \in S : w.userId = u }, "quantity"),
                     count |-> Cardinality({ w \in S : w.userId = u }),
                     userName |-> UserName(u)] : u \in { w.userId : w \in S } }
  IN [outcome |-> "ok",
      body |-> [summary |-> [totalRecords |-> n,
                             totalQuantity |-> SumField(S, "quantity"),
                             totalEarnings |-> SumField(S, "totalAmount"),
                             averageQuantity |-> Avg("quantity", 1),
                             averagePricePerUnit |-> Avg("pricePerUnit", 100),
                             averageEarning |-> Avg("totalAmount", 100),
                             highestEarning |-> OrZero(MaxField(S, "totalAmount")),
                             lowestEarning |-> OrZero(MinField(S, "totalAmount")),
                             from |-> MinField(S, "date"),
                             to |-> MaxField(S, "date")],
               dailyBreakdown |->
                 SubSeq(daily, 1, IF Len(daily) < DailyTake THEN Len(daily) ELSE DailyTake),
               workerBreakdown |-> IF Truthy(userId) THEN {} ELSE byWorker],
      userIds |-> { w.userId : w \in S }]

\* AttendanceService.getAttendanceForUser: findUnique on (date, userId),
\* which Prisma refuses to run for a userId that is NaN
getAttendanceForUser(userId, date) ==
  LET S == { a \in attendance : a.date = normalizeDate(date) /\ a.userId = userId }
  IN IF userId = NaN
       THEN [outcome |-> "PrismaValidation", body |-> {}, userIds |-> {}]
       ELSE [outcome |-> "ok", body |-> { AttendanceWithIncludes(a) : a \in S },
             userIds |-> { a.userId : a \in S }
                           \cup { w.userId : w \in { x \in works : x.id \in { a.workId : a \in S } } }]

\* the where object of getAttendanceRange and getAttendanceSummary
AttendanceWhere(startDate, endDate, userId) ==
  { a \in attendance :
      /\ a.date >= normalizeDate(startDate)
      /\ a.date <= normalizeDate(endDate)
      /\ Truthy(userId) => a.userId = userId }

\* AttendanceService.getAttendanceRange
getAttendanceRange(startDate, endDate, userId) ==
  LET S == AttendanceWhere(startDate, endDate, userId)
      rows == { AttendanceWithIncludes(a) : a \in S }
      LaterFirstThenUser ==
        { <<a, b>> \in rows \X rows :
            \/ a.row.date > b.row.date
            \/ a.row.date = b.row.date /\ a.row.userId < b.row.userId }
  IN [outcome |-> "ok",
      body |-> OrderBy(rows, LaterFirstThenUser),
      userIds |-> { a.userId : a \in S }
                    \cup { w.userId : w \in { x \in works : x.id \in { a.workId : a \in S } } }]

\* AttendanceService.getAttendanceSummary
getAttendanceSummary(startDate, endDate, userId) ==
  LET S == AttendanceWhere(startDate, endDate, userId)
      Count(T, status) == Cardinality({ a \in T : a.status = status })
      totalDays == Cardinality({ a.date : a \in S })
      presentDays == Count(S, "PRESENT")
      halfDays == Count(S, "HALF_DAY")
      leaveDays == Count(S, "LEAVE")
      totalPossible == totalDays - leaveDays
      attendanceRate ==
        IF totalDays > 0
          THEN IF totalPossible > 0
                 THEN RoundDiv((2 * presentDays + halfDays) * 100, 2 * totalPossible)
                 ELSE 100
          ELSE 0
      Of(u) == { a \in S : a.userId = u }
  IN [outcome |-> "ok",
      body |-> [from |-> normalizeDate(startDate), to |-> normalizeDate(endDate),
                summary |-> [totalDays |-> totalDays, presentDays |-> presentDays,
                             absentDays |-> Count(S, "ABSENT"), halfDays |-> halfDays,
                             leaveDays |-> leaveDays, attendanceRate |-> attendanceRate],
                byUser |-> { [userId |-> u,
                              userName |-> { x.name : x \in { y \in users : y.id = u } },
                              present |-> Count(Of(u), "PRESENT"),
                              absent |-> Count(Of(u), "ABSENT"),
                              halfDay |-> Count(Of(u), "HALF_DAY"),
                              leave |-> Count(Of(u), "LEAVE"),
                              total |-> Cardinality(Of(u))] : u \in { a.userId : a \in S } }],
      userIds |-> { a.userId : a \in S }]

(***************************************************************************)
(* The read routes of WorkController and AttendanceController.  Each       *)
(* action is one request made twice on the same database state, with the   *)
(* userId values userIdA and userIdB and everything else equal; resA and   *)
(* resB are the two responses.                                             *)
(***************************************************************************)
\* if (role === 'WORKER' && sub !== userId) userId = sub
WorkTargetUserId(role, sub, userId) ==
  IF role = "WORKER" /\ sub # userId THEN sub ELSE userId

\* if (role === 'WORKER') query.userId = sub
StatisticsUserId(role, sub, userId) ==
  IF role = "WORKER" THEN sub ELSE userId

\* parseInt(userId, 10) of the query strings the model uses
parseInt(str) ==
  CASE str = "0" -> 0
    [] str = "3" -> 3
    [] OTHER -> NaN

\* a range route that passes the userId of the query on for every caller
RangeTargetUserIdOfQuery(role, sub, userId) ==
  IF userId # "" THEN parseInt(userId) ELSE 0

\* userId ? parseInt(userId, 10) : undefined, replaced by sub for a WORKER
RangeTargetUserId(role, sub, userId) ==
  IF role = "WORKER" THEN sub
  ELSE IF userId # "" THEN parseInt(userId) ELSE 0

\* userId ? parseInt(userId, 10) : req.user.sub, replaced by sub for a WORKER
DateTargetUserId(role, sub, userId) ==
  IF role = "WORKER" THEN sub
  ELSE IF userId # "" THEN parseInt(userId) ELSE sub

Response(param, result) ==
  [param |-> param, outcome |-> result.outcome, body |-> result.body,
   userIds |-> result.userIds]

\* the two requests are answered; the database is not written
Answered(p, op, sub, role, a, b) ==
  /\ Idle(p)
  /\ issued' = issued + 1
  /\ resA' = a
  /\ resB' = b
  /\ last' = [NoLast EXCEPT !.op = op, !.outcome = "ok", !.sub = sub, !.role = role]
  /\ UNCHANGED <<dbVars, req>>

\* GET work/user/:userId/date/:date
GetWorkByUserAndDate(p, sub, role, userIdA, userIdB, date) ==
  Answered(p, "getWorkByUserAndDate", sub, role,
    Response(userIdA, getWorkByUserAndDate(WorkTargetUserId(role, sub, userIdA), date)),
    Response(userIdB, getWorkByUserAndDate(WorkTargetUserId(role, sub, userIdB), date)))

\* GET work/statistics
GetWorkStatistics(p, sub, role, userIdA, userIdB, startDate, endDate) ==
  Answered(p, "getWorkStatistics", sub, role,
    Response(userIdA, getWorkStatistics(StatisticsUserId(role, sub, userIdA), startDate, endDate)),
    Response(userIdB, getWorkStatistics(StatisticsUserId(role, sub, userIdB), startDate, endDate)))

(***************************************************************************)
(* GET work/statistics query by query: aggregate, groupBy, and without a   *)
(* userId filter findMany and user.findMany, each awaited in turn outside  *)
(* any transaction.  req.partial holds the body assembled so far.          *)
(***************************************************************************)
\* the controller's userId rule and prisma.work.aggregate: the summary
GetWorkStatisticsAggregate(p, sub, role, userId, startDate, endDate) ==
  /\ Idle(p)
  /\ issued' = issued + 1
  /\ LET filter == StatisticsUserId(role, sub, userId)
         now == getWorkStatistics(filter, startDate, endDate).body
     IN Continue(p, [NoReq EXCEPT !.op = "getWorkStatistics", !.step = "ws_group",
                                  !.sub = sub, !.role = role, !.userId = filter,
                                  !.startDate = startDate, !.endDate = endDate,
                                  !.partial = {[summary |-> now.summary,
                                                dailyBreakdown |-> <<>>,
                                                workerBreakdown |-> {}]}])
  /\ UNCHANGED dbVars

\* the request is answered with the body assembled
StatisticsAnswered(p, body) ==
  /\ last' = [NoLast EXCEPT !.op = req[p].op, !.outcome = "ok", !.sub = req[p].sub,
                            !.role = req[p].role, !.userId = req[p].userId]
  /\ resA' = [param |-> [userId |-> req[p].userId, startDate |-> req[p].startDate,
                         endDate |-> req[p].endDate],
              outcome |-> "ok", body |-> body,
              userIds |-> { e.userId : e \in body.workerBreakdown }]
  /\ resB' = NoResponse
  /\ req' = [req EXCEPT ![p] = NoReq]

\* prisma.work.groupBy by date; with a userId filter the method returns here
GetWorkStatisticsGroupBy(p) ==
  /\ req[p].op = "getWorkStatistics" /\ req[p].step = "ws_group"
  /\ LET r == req[p]
         now == getWorkStatistics(r.userId, r.startDate, r.endDate).body
         body == [(CHOOSE b \in r.partial : TRUE) EXCEPT
                    !.dailyBreakdown = now.dailyBreakdown]
     IN IF Truthy(r.userId)
          THEN StatisticsAnswered(p, body)
          ELSE Continue(p, [r EXCEPT !.step = "ws_find", !.partial = {body}])
  /\ UNCHANGED <<dbVars, issued>>

\* prisma.work.findMany and the manual grouping by userId
GetWorkStatisticsFindMany(p) ==
  /\ req[p].op = "getWorkStatistics" /\ req[p].step = "ws_find"
  /\ LET r == req[p]
         now == getWorkStatistics(r.userId, r.startDate, r.endDate).body
         body == [(CHOOSE b \in r.partial : TRUE) EXCEPT
                    !.workerBreakdown = now.workerBreakdown]
     IN Continue(p, [r EXCEPT !.step = "ws_users", !.partial = {body}])
  /\ UNCHANGED <<dbVars, issued>>

\* prisma.user.findMany({ where: { id: { in: userIds } } }): the names
GetWorkStatisticsUsers(p) ==
  /\ req[p].op = "getWorkStatistics" /\ req[p].step = "ws_users"
  /\ LET body == CHOOSE b \in req[p].partial : TRUE
         Named(e) == [e EXCEPT !.userName = IF e.userId \in Ids(users)
                                              THEN Row(users, e.userId).name
                                              ELSE "Unknown"]
     IN StatisticsAnswered(p, [body EXCEPT
          !.workerBreakdown = { Named(e) : e \in body.workerBreakdown }])
  /\ UNCHANGED <<dbVars, issued>>

\* GET attendance/:date
GetAttendance(p, sub, role, userIdA, userIdB, date) ==
  Answered(p, "getAttendance", sub, role,
    Response(userIdA, getAttendanceForUser(DateTargetUserId(role, sub, userIdA), date)),
    Response(userIdB, getAttendanceForUser(DateTargetUserId(role, sub, userIdB), date)))

\* GET attendance/range/:startDate/:endDate
GetAttendanceRange(p, sub, role, userIdA, userIdB, startDate, endDate) ==
  Answered(p, "getAttendanceRange", sub, role,
    Response(userIdA, getAttendanceRange(startDate, endDate, RangeTargetUserId(role, sub, userIdA))),
    Response(userIdB, getAttendanceRange(startDate, endDate, RangeTargetUserId(role, sub, userIdB))))

\* GET attendance/summary/:startDate/:endDate
GetAttendanceSummary(p, sub, role, userIdA, userIdB, startDate, endDate) ==
  Answered(p, "getAttendanceSummary", sub, role,
    Response(userIdA, getAttendanceSummary(startDate, endDate, RangeTargetUserId(role, sub, userIdA))),
    Response(userIdB, getAttendanceSummary(startDate, endDate, RangeTargetUserId(role, sub, userIdB))))

(***************************************************************************)
(* UsersController.update and UsersService.update: PUT users/:id.          *)
(* In the body "" stands for an email or name that is not given, 0 for a   *)
(* monthlySalary that is not given; role is "undefined", "null" or a Role  *)
(* (the DTO's IsOptional lets null through, IsEnum nothing else).          *)
(***************************************************************************)
\* a controller that only checks whose profile is addressed
UpdateForbiddenForOthersOnly(role, sub, id, dtoRole) ==
  role # "OWNER" /\ sub # id

\* the two checks of the controller; a role that is null or undefined is falsy
UpdateForbidden(role, sub, id, dtoRole) ==
  \/ role # "OWNER" /\ sub # id
  \/ role # "OWNER" /\ dtoRole \in Role

\* findUnique({ where: { email } })
EmailTaken(email) == \E u \in users : u.email = email

\* the controller's checks, then findUnique({ where: { id } })
UpdateUserBegin(p, sub, role, id, email, name, dtoRole, monthlySalary) ==
  /\ Idle(p)
  /\ canActivate("updateUser", role)
  /\ issued' = issued + 1
  /\ LET r == [NoReq EXCEPT !.op = "updateUser", !.sub = sub, !.role = role,
                            !.id = id, !.email = email, !.name = name,
                            !.dtoRole = dtoRole, !.salary = monthlySalary]
     IN IF UpdateForbidden(role, sub, id, dtoRole)
          THEN DoneAtOnce(p, r, "Forbidden", 0)
          ELSE IF id \notin Ids(users)
            THEN DoneAtOnce(p, r, "NotFound", 0)
            ELSE IF email # "" /\ email # Row(users, id).email
              THEN Continue(p, [r EXCEPT !.step = "uu_email"])
              ELSE Continue(p, [r EXCEPT !.step = "uu_write"])
  /\ UNCHANGED dbVars

\* the lookup of the new email
UpdateUserEmailCheck(p) ==
  /\ req[p].op = "updateUser" /\ req[p].step = "uu_email"
  /\ IF EmailTaken(req[p].email)
       THEN Done(p, "Conflict", 0)
       ELSE Continue(p, [req[p] EXCEPT !.step = "uu_write"])
  /\ UNCHANGED <<dbVars, issued>>

\* updateData applied to the stored row
UpdatedUser(u, r) ==
  [u EXCEPT !.email = IF r.email # "" THEN r.email ELSE u.email,
            !.name = IF r.name # "" THEN r.name ELSE u.name,
            !.role = IF r.dtoRole # "undefined" THEN r.dtoRole ELSE u.role,
            !.monthlySalary = IF r.salary # 0 THEN r.salary ELSE u.monthlySalary]

\* prisma.user.update({ where: { id }, data: updateData }): refused for a
\* null role (the column is not nullable), for a row that is gone, and by
\* User_email_key
UpdateUserWrite(p) ==
  /\ req[p].op = "updateUser" /\ req[p].step = "uu_write"
  /\ LET r == req[p] IN
     IF r.dtoRole = "null"
       THEN Done(p, "PrismaValidation", 0) /\ UNCHANGED users
       ELSE IF r.id \notin Ids(users)
         THEN Done(p, "P2025", 0) /\ UNCHANGED users
         ELSE IF r.email # "" /\ \E u \in users : u.id # r.id /\ u.email = r.email
           THEN Done(p, "P2002_email", 0) /\ UNCHANGED users
           ELSE /\ users' = (users \ {Row(users, r.id)})
                              \cup {UpdatedUser(Row(users, r.id), r)}
                /\ Done(p, "ok", r.id)
  /\ UNCHANGED <<works, attendance, descriptions, companies, exports,
                 workSeq, attSeq, descSeq, compSeq, expSeq, issued, ledgerVars>>

(***************************************************************************)
(* UsersService.create: POST users.                                        *)
(***************************************************************************)
\* prisma.user.create without the unique index on email
InsertUserUnchecked(email) == TRUE

\* prisma.user.create: User_email_key rejects a second row with the email
InsertUserAllowed(email) == ~ EmailTaken(email)

\* findUnique({ where: { email } }): a stored email is a ConflictException
CreateUserBegin(p, sub, role, email, name, password, dtoRole, monthlySalary) ==
  /\ Idle(p)
  /\ canActivate("createUser", role)
  /\ issued' = issued + 1
  /\ LET r == [NoReq EXCEPT !.op = "createUser", !.step = "cu_create",
                            !.sub = sub, !.role = role, !.email = email,
                            !.name = name, !.password = password,
                            !.dtoRole = dtoRole, !.salary = monthlySalary]
     IN IF EmailTaken(email)
          THEN DoneAtOnce(p, r, "Conflict", 0)
          ELSE Continue(p, r)
  /\ UNCHANGED dbVars

\* data of prisma.user.create; monthlySalary: dto.monthlySalary || null
NewUser(r, salt) ==
  [id |-> userSeq + 1, email |-> r.email, name |-> r.name, role |-> r.dtoRole,
   monthlySalary |-> r.salary, password |-> hash(r.password, salt)]

\* bcrypt.hash, then prisma.user.create
CreateUserInsert(p) ==
  /\ req[p].op = "createUser" /\ req[p].step = "cu_create"
  /\ IF InsertUserAllowed(req[p].email)
       THEN \E salt \in Salts :
              /\ users' = users \cup {NewUser(req[p], salt)}
              /\ userSeq' = userSeq + 1
              /\ Done(p, "ok", userSeq + 1)
       ELSE Done(p, "P2002_email", 0) /\ UNCHANGED <<users, userSeq>>
  /\ UNCHANGED <<works, attendance, descriptions, companies, exports,
                 workSeq, attSeq, descSeq, compSeq, expSeq,
                 expenses, salaryPayments, expenseSeq, paySeq, issued>>

(***************************************************************************)
(* UsersService.delete: DELETE users/:id.                                  *)
(***************************************************************************)
DeleteUserBegin(p, sub, role, id) ==
  /\ Idle(p)
  /\ canActivate("deleteUser", role)
  /\ issued' = issued + 1
  /\ LET r == [NoReq EXCEPT !.op = "deleteUser", !.step = "du_delete",
                            !.sub = sub, !.role = role, !.id = id]
     IN IF id \notin Ids(users)
          THEN DoneAtOnce(p, r, "NotFound", 0)
          ELSE Continue(p, r)
  /\ UNCHANGED dbVars

\* SalaryPayment rows of a deleted user go with the user
SalaryPaymentsWithoutUser(id) == { s \in salaryPayments : s.userId # id }

\* prisma.user.delete: Work_userId_fkey and Attendance_userId_fkey are
\* ON DELETE CASCADE
DeleteUserDelete(p) ==
  /\ req[p].op = "deleteUser" /\ req[p].step = "du_delete"
  /\ IF req[p].id \in Ids(users)
       THEN /\ users' = users \ {Row(users, req[p].id)}
            /\ works' = { w \in works : w.userId # req[p].id }
            /\ attendance' = { a \in attendance : a.userId # req[p].id }
            /\ salaryPayments' = SalaryPaymentsWithoutUser(req[p].id)
            /\ Done(p, "ok", req[p].id)
       ELSE /\ Done(p, "P2025", 0)
            /\ UNCHANGED <<users, works, attendance, salaryPayments>>
  /\ UNCHANGED <<descriptions, companies, exports, workSeq, attSeq, descSeq,
                 compSeq, expSeq, expenses, userSeq, expenseSeq, paySeq, issued>>

(***************************************************************************)
(* UsersController.changePassword / UsersService.changePassword:           *)
(* POST users/:id/change-password.                                         *)
(***************************************************************************)
\* a service that skips the verification of the current password
PasswordAlwaysValid(currentPassword, user) == TRUE

\* bcrypt.compare(dto.currentPassword, user.password)
isPasswordValid(currentPassword, user) == compare(currentPassword, user.password)

\* the controller's check, findUnique({ where: { id } }) and the comparison
\* with the password of the row that was read
ChangePasswordBegin(p, sub, role, id, currentPassword, newPassword) ==
  /\ Idle(p)
  /\ canActivate("changePassword", role)
  /\ issued' = issued + 1
  /\ LET r == [NoReq EXCEPT !.op = "changePassword", !.step = "cp_write",
                            !.sub = sub, !.role = role, !.id = id,
                            !.password = currentPassword,
                            !.newPassword = newPassword]
     IN IF role # "OWNER" /\ sub # id
          THEN DoneAtOnce(p, r, "Forbidden", 0)
          ELSE IF id \notin Ids(users)
            THEN DoneAtOnce(p, r, "NotFound", 0)
            ELSE IF ~ isPasswordValid(currentPassword, Row(users, id))
              THEN DoneAtOnce(p, r, "BadRequest", 0)
              ELSE Continue(p, r)
  /\ UNCHANGED dbVars

\* bcrypt.hash(dto.newPassword, 10), then prisma.user.update({ where: { id },
\* data: { password } })
ChangePasswordWrite(p) ==
  /\ req[p].op = "changePassword" /\ req[p].step = "cp_write"
  /\ IF req[p].id \in Ids(users)
       THEN \E salt \in Salts :
              /\ users' = (users \ {Row(users, req[p].id)})
                   \cup {[Row(users, req[p].id) EXCEPT
                            !.password = hash(req[p].newPassword, salt)]}
              /\ Done(p, "ok", req[p].id)
       ELSE Done(p, "P2025", 0) /\ UNCHANGED users
  /\ UNCHANGED <<works, attendance, descriptions, companies, exports,
                 workSeq, attSeq, descSeq, compSeq, expSeq, issued, ledgerVars>>

(***************************************************************************)
(* FinanceController / FinanceService: the Expense table.  An absent       *)
(* string of a body or query is "", an absent date is the empty set.       *)
(***************************************************************************)
ExpenseType == {"COMPANY", "HOME"}

\* the month of toISOString().substring(0, 7)
MonthOf(t) == t \div MonthLen

\* endDate.setHours(23, 59, 59, 999): the last instant of the day
EndOfDay(t) == normalizeDate(t) + (DayLen - 1)

\* data of prisma.expense.create; date defaults to CURRENT_TIMESTAMP
NewExpense(type, category, amount, date, now) ==
  [id |-> expenseSeq + 1, type |-> type, category |-> category,
   amount |-> amount, date |-> IF date = {} THEN now ELSE CHOOSE t \in date : TRUE]

\* FinanceService.create: one prisma.expense.create; bodyType is the type the
\* body carried before the controller set dto.type
FinanceCreate(p, op, sub, role, bodyType, type, category, amount, date) ==
  /\ Idle(p)
  /\ canActivate(op, role)
  /\ issued' = issued + 1
  /\ \E now \in Instants :
       expenses' = expenses \cup {NewExpense(type, category, amount, date, now)}
  /\ expenseSeq' = expenseSeq + 1
  /\ DoneAtOnce(p, [NoReq EXCEPT !.op = op, !.sub = sub, !.role = role,
                                 !.type = bodyType, !.category = category,
                                 !.amount = amount],
                "ok", expenseSeq + 1)
  /\ UNCHANGED <<users, works, attendance, descriptions, companies, exports,
                 workSeq, attSeq, descSeq, compSeq, expSeq,
                 salaryPayments, userSeq, paySeq>>

\* POST finance/company: dto.type = ExpenseType.COMPANY
CreateCompanyExpense(p, sub, role, bodyType, category, amount, date) ==
  FinanceCreate(p, "createCompanyExpense", sub, role, bodyType, "COMPANY",
                category, amount, date)

\* POST finance/home: dto.type = ExpenseType.HOME
CreateHomeExpense(p, sub, role, bodyType, category, amount, date) ==
  FinanceCreate(p, "createHomeExpense", sub, role, bodyType, "HOME",
                category, amount, date)

\* a where clause that lets the query string choose the type
TypeOfQueryFirst(queryType, type) == IF queryType # "" THEN queryType ELSE type

\* if (type) where.type = type; else if (query.type) where.type = query.type
WhereType(queryType, type) == IF type # "" THEN type ELSE queryType

\* where.date of findAll and getStatistics
InDateRange(t, startDate, endDate) ==
  /\ \A f \in startDate : t >= f
  /\ \A u \in endDate : t <= EndOfDay(u)

\* FinanceService.findAll: the selected rows (returned latest date first);
\* the categories of the model do not contain one another
FinanceFindAll(rows, queryType, category, startDate, endDate, type) ==
  { e \in rows :
      /\ WhereType(queryType, type) # "" => e.type = WhereType(queryType, type)
      /\ category # "" => e.category = category
      /\ InDateRange(e.date, startDate, endDate) }

\* FinanceService.getStatistics: summary, byCategory, byType, monthlyBreakdown
FinanceGetStatistics(rows, queryType, startDate, endDate, type) ==
  LET S == { e \in rows :
               /\ WhereType(queryType, type) # "" => e.type = WhereType(queryType, type)
               /\ InDateRange(e.date, startDate, endDate) }
      n == Cardinality(S)
  IN [totalAmount |-> SumField(S, "amount"),
      totalRecords |-> n,
      averageAmount |-> IF n = 0 THEN 0 ELSE RoundDiv(100 * SumField(S, "amount"), n),
      byCategory |-> { [category |-> c,
                        total |-> SumField({ e \in S : e.category = c }, "amount"),
                        count |-> Cardinality({ e \in S : e.category = c })] :
                       c \in { e.category : e \in S } },
      byType |-> IF type # "" THEN {}
                 ELSE { [type |-> t,
                         total |-> SumField({ e \in S : e.type = t }, "amount"),
                         count |-> Cardinality({ e \in S : e.type = t })] :
                        t \in { e.type : e \in S } },
      monthlyBreakdown |-> { [month |-> m,
                              total |-> SumField({ e \in S : MonthOf(e.date) = m }, "amount")] :
                             m \in { MonthOf(e.date) : e \in S } }]

\* the type the route passes to the service: GET finance/company,
\* finance/home, finance
RouteType(op) ==
  IF op \in {"getCompanyExpenses", "getCompanyStatistics"} THEN "COMPANY"
  ELSE IF op \in {"getHomeExpenses", "getHomeStatistics"} THEN "HOME"
  ELSE ""

\* the response of a finance read
FinanceResponse(op, queryType, category, startDate, endDate, body) ==
  [op |-> op, queryType |-> queryType, category |-> category,
   startDate |-> startDate, endDate |-> endDate, body |-> body]

\* GET finance/company, finance/home, finance
GetExpenses(p, op, sub, role, queryType, category, startDate, endDate) ==
  /\ canActivate(op, role)
  /\ Answered(p, op, sub, role,
              FinanceResponse(op, queryType, category, startDate, endDate,
                FinanceFindAll(expenses, queryType, category, startDate, endDate,
                               RouteType(op))),
              NoResponse)

\* GET finance/company/statistics, finance/home/statistics, finance/statistics
GetExpenseStatistics(p, op, sub, role, queryType, startDate, endDate) ==
  /\ canActivate(op, role)
  /\ Answered(p, op, sub, role,
              FinanceResponse(op, queryType, "", startDate, endDate,
                FinanceGetStatistics(expenses, queryType, startDate, endDate,
                                     RouteType(op))),
              NoResponse)

\* updateData of FinanceService.update: only the fields the body carries
UpdatedExpense(e, r) ==
  [e EXCEPT !.type = IF r.type # "" THEN r.type ELSE e.type,
            !.category = IF r.category # "" THEN r.category ELSE e.category,
            !.amount = IF r.amount # 0 THEN r.amount ELSE e.amount]

\* PUT finance/:id: findById
UpdateExpenseBegin(p, sub, role, id, type, category, amount) ==
  /\ Idle(p)
  /\ canActivate("updateExpense", role)
  /\ issued' = issued + 1
  /\ LET r == [NoReq EXCEPT !.op = "updateExpense", !.step = "fe_write",
                            !.sub = sub, !.role = role, !.id = id,
                            !.type = type, !.category = category,
                            !.amount = amount]
     IN IF id \notin Ids(expenses)
          THEN DoneAtOnce(p, r, "NotFound", 0)
          ELSE Continue(p, r)
  /\ UNCHANGED dbVars

\* prisma.expense.update({ where: { id }, data })
UpdateExpenseWrite(p) ==
  /\ req[p].op = "updateExpense" /\ req[p].step = "fe_write"
  /\ IF req[p].id \in Ids(expenses)
       THEN /\ expenses' = (expenses \ {Row(expenses, req[p].id)})
                 \cup {UpdatedExpense(Row(expenses, req[p].id), req[p])}
            /\ Done(p, "ok", req[p].id)
       ELSE Done(p, "P2025", 0) /\ UNCHANGED expenses
  /\ UNCHANGED <<users, works, attendance, descriptions, companies, exports,
                 workSeq, attSeq, descSeq, compSeq, expSeq,
                 salaryPayments, userSeq, expenseSeq, paySeq, issued>>

\* DELETE finance/:id: findById
DeleteExpenseBegin(p, sub, role, id) ==
  /\ Idle(p)
  /\ canActivate("deleteExpense", role)
  /\ issued' = issued + 1
  /\ LET r == [NoReq EXCEPT !.op = "deleteExpense", !.step = "fe_delete",
                            !.sub = sub, !.role = role, !.id = id]
     IN IF id \notin Ids(expenses)
          THEN DoneAtOnce(p, r, "NotFound", 0)
          ELSE Continue(p, r)
  /\ UNCHANGED dbVars

\* prisma.expense.delete({ where: { id } })
DeleteExpenseDelete(p) ==
  /\ req[p].op = "deleteExpense" /\ req[p].step = "fe_delete"
  /\ IF req[p].id \in Ids(expenses)
       THEN /\ expenses' = expenses \ {Row(expenses, req[p].id)}
            /\ Done(p, "ok", req[p].id)
       ELSE Done(p, "P2025", 0) /\ UNCHANGED expenses
  /\ UNCHANGED <<users, works, attendance, descriptions, companies, exports,
                 workSeq, attSeq, descSeq, compSeq, expSeq,
                 salaryPayments, userSeq, expenseSeq, paySeq, issued>>

\* an OWNER-only read route: the handler answers, nothing is written
OwnerReads(p, op, sub, role) ==
  /\ Idle(p)
  /\ canActivate(op, role)
  /\ issued' = issued + 1
  /\ DoneAtOnce(p, [NoReq EXCEPT !.op = op, !.sub = sub, !.role = role], "ok", 0)
  /\ UNCHANGED dbVars

(***************************************************************************)
(* UsersService: salary payments and the monthly balance of a worker.      *)
(* Instants are readings of the server's clock in its own time zone; a     *)
(* month is given by its number, an absent month or date is the empty set. *)
(***************************************************************************)
\* new Date(): the readings of the clock a request may see
ClockReadings == {0, LastInstant}

\* new Date(year, monthNum - 1, 1)
MonthStart(m) == m * MonthLen

\* new Date(year, monthNum, 0, 23, 59, 59, 999)
MonthEnd(m) == (m + 1) * MonthLen - 1

\* now.getFullYear(), now.getMonth()
CurrentMonth(now) == now \div MonthLen

\* a lookup of the payments of the month that forgets the user
PaymentsOfEveryUser(userId, startDate, endDate) ==
  { s \in salaryPayments : s.date >= startDate /\ s.date <= endDate }

\* salaryPayment.findMany({ where: { userId, date: { gte, lte } } })
PaymentsOfUser(userId, startDate, endDate) ==
  { s \in salaryPayments :
      s.userId = userId /\ s.date >= startDate /\ s.date <= endDate }

\* the body of the response of getWorkerDetails; monthlySalary is the column
\* as read with the user (0 for null)
WorkerDetails(userId, monthlySalary, m) ==
  LET paid == PaymentsOfUser(userId, MonthStart(m), MonthEnd(m))
      done == { w \in works : /\ w.userId = userId
                              /\ w.date >= MonthStart(m) /\ w.date <= MonthEnd(m) }
      totalPaidThisMonth == SumField(paid, "amount")
  IN [userId |-> userId, month |-> m, monthlySalary |-> monthlySalary,
      totalPaidThisMonth |-> totalPaidThisMonth,
      remainingSalary |-> monthlySalary - totalPaidThisMonth,
      salaryPayments |-> paid,
      totalWorkAmount |-> SumField(done, "totalAmount"),
      totalWorkEntries |-> Cardinality(done)]

\* user.findUnique; the month range of the given or of the current month
GetWorkerDetailsBegin(p, sub, role, userId, month) ==
  /\ Idle(p)
  /\ issued' = issued + 1
  /\ LET r == [NoReq EXCEPT !.op = "getWorkerDetails", !.step = "wd_read",
                            !.sub = sub, !.role = role, !.userId = userId]
     IN IF userId \notin Ids(users)
          THEN DoneAtOnce(p, r, "NotFound", 0)
          ELSE \E now \in ClockReadings :
                 Continue(p, [r EXCEPT !.salary = Row(users, userId).monthlySalary,
                                       !.month = IF month = {} THEN {CurrentMonth(now)}
                                                 ELSE month])
  /\ UNCHANGED dbVars

\* salaryPayment.findMany and work.aggregate over the month; the response
GetWorkerDetailsRead(p) ==
  /\ req[p].op = "getWorkerDetails" /\ req[p].step = "wd_read"
  /\ last' = [NoLast EXCEPT !.op = "getWorkerDetails", !.outcome = "ok",
                            !.sub = req[p].sub, !.role = req[p].role,
                            !.userId = req[p].userId]
  /\ resA' = WorkerDetails(req[p].userId, req[p].salary,
                           CHOOSE m \in req[p].month : TRUE)
  /\ resB' = NoResponse
  /\ req' = [req EXCEPT ![p] = NoReq]
  /\ UNCHANGED <<dbVars, issued>>

\* user.findUnique of createSalaryPayment
CreateSalaryPaymentBegin(p, sub, role, userId, amount, date) ==
  /\ Idle(p)
  /\ issued' = issued + 1
  /\ LET r == [NoReq EXCEPT !.op = "createSalaryPayment", !.step = "sp_create",
                            !.sub = sub, !.role = role, !.userId = userId,
                            !.amount = amount]
     IN IF userId \notin Ids(users)
          THEN DoneAtOnce(p, r, "NotFound", 0)
          ELSE \E now \in ClockReadings :
                 Continue(p, [r EXCEPT !.date = IF date = {} THEN now
                                               ELSE CHOOSE t \in date : TRUE])
  /\ UNCHANGED dbVars

\* data of salaryPayment.create
NewSalaryPayment(r) ==
  [id |-> paySeq + 1, userId |-> r.userId, amount |-> r.amount, date |-> r.date]

\* salaryPayment.create
CreateSalaryPaymentInsert(p) ==
  /\ req[p].op = "createSalaryPayment" /\ req[p].step = "sp_create"
  /\ IF req[p].userId \in Ids(users)
       THEN /\ salaryPayments' = salaryPayments \cup {NewSalaryPayment(req[p])}
            /\ paySeq' = paySeq + 1
            /\ Done(p, "ok", paySeq + 1)
       ELSE Done(p, "P2003", 0) /\ UNCHANGED <<salaryPayments, paySeq>>
  /\ UNCHANGED <<users, works, attendance, descriptions, companies, exports,
                 workSeq, attSeq, descSeq, compSeq, expSeq,
                 expenses, userSeq, expenseSeq, issued>>

\* salaryPayment.findUnique of deleteSalaryPayment
DeleteSalaryPaymentBegin(p, sub, role, paymentId) ==
  /\ Idle(p)
  /\ issued' = issued + 1
  /\ LET r == [NoReq EXCEPT !.op = "deleteSalaryPayment", !.step = "sp_delete",
                            !.sub = sub, !.role = role, !.id = paymentId]
     IN IF paymentId \notin Ids(salaryPayments)
          THEN DoneAtOnce(p, r, "NotFound", 0)
          ELSE Continue(p, r)
  /\ UNCHANGED dbVars

\* salaryPayment.delete
DeleteSalaryPaymentDelete(p) ==
  /\ req[p].op = "deleteSalaryPayment" /\ req[p].step = "sp_delete"
  /\ IF req[p].id \in Ids(salaryPayments)
       THEN /\ salaryPayments' = salaryPayments \ {Row(salaryPayments, req[p].id)}
            /\ Done(p, "ok", req[p].id)
       ELSE Done(p, "P2025", 0) /\ UNCHANGED salaryPayments
  /\ UNCHANGED <<users, works, attendance, descriptions, companies, exports,
                 workSeq, attSeq, descSeq, compSeq, expSeq,
                 expenses, userSeq, expenseSeq, paySeq, issued>>

(***************************************************************************)
(* The callers and the inputs of the requests.                             *)
(***************************************************************************)
\* req.user of a request: the sub and role of a stored user
Callers == { <<u.id, u.role>> : u \in users }
Owners == { c \in Callers : c[2] = "OWNER" }

\* ids a request may name: every id handed out so far and the next one
WorkIdInputs == 1 .. (workSeq + 1)
DescIdInputs == 0 .. (descSeq + 1)

(***************************************************************************)
(* Work and attendance requests of two users running concurrently: the     *)
(* description is named by one text, the amounts are fixed.                *)
(***************************************************************************)
SyncCallers == { c \in Callers : c[1] \in {1, 2} }
SyncUsers == {1, 2}
\* the statuses an OWNER sets by hand here; PRESENT comes from createWork
ManualStatuses == {"ABSENT", "LEAVE"}

NextWork ==
  \E p \in Procs :
    \/ \E c \in SyncCallers, d \in Instants :
         CreateWorkBegin(p, c[1], c[2], d, 1, 1, 0, "cut", 0)
    \/ CreateWorkDescCreate(p)
    \/ CreateWorkTxFind(p)
    \/ CreateWorkTxCommit(p)
    \/ \E c \in SyncCallers, id \in WorkIdInputs : DeleteWorkBegin(p, c[1], c[2], id)
    \/ DeleteWorkTxCommit(p)
    \/ \E c \in Owners, d \in Instants, u \in SyncUsers, st \in ManualStatuses :
         CreateAttendanceBegin(p, c[1], c[2], d, u, st)
    \/ CreateAttendanceInsert(p)
    \/ \E c \in Owners, d \in Instants, u \in SyncUsers, st \in ManualStatuses :
         UpdateAttendanceStatusBegin(p, c[1], c[2], d, u, st)
    \/ UpdateAttendanceStatusWrite(p)

Spec == Init /\ [][NextWork]_vars

(***************************************************************************)
(* Work requests of the three users, one at a time: the ownership rule.    *)
(***************************************************************************)
NextAccess ==
  \E p \in {1} :
    \/ \E c \in Callers : CreateWorkBegin(p, c[1], c[2], 0, 1, 1, 0, "cut", 0)
    \/ CreateWorkDescCreate(p)
    \/ CreateWorkTxFind(p)
    \/ CreateWorkTxCommit(p)
    \/ \E c \in Callers, id \in WorkIdInputs : GetWorkById(p, c[1], c[2], id)
    \/ \E c \in Callers, id \in WorkIdInputs, q \in {0, 2}, t \in {"", "sew"} :
         UpdateWorkBegin(p, c[1], c[2], id, q, 0, 0, t)
    \/ UpdateWorkDescCreate(p)
    \/ UpdateWorkWrite(p)
    \/ \E c \in Callers, id \in WorkIdInputs : DeleteWorkBegin(p, c[1], c[2], id)
    \/ DeleteWorkTxCommit(p)

SpecAccess == Init /\ [][NextAccess]_vars

(***************************************************************************)
(* Every request that names a description, running concurrently.           *)
(***************************************************************************)
NextDesc ==
  \E p \in Procs :
    \/ \E c \in Owners, t \in Texts : CreateDescriptionBegin(p, c[1], c[2], t)
    \/ CreateDescriptionInsert(p)
    \/ \E c \in Owners, di \in {0, 1}, t \in Texts :
         CreateWorkBegin(p, c[1], c[2], 0, 1, 1, di, t, 0)
    \/ CreateWorkDescCreate(p)
    \/ CreateWorkTxFind(p)
    \/ CreateWorkTxCommit(p)
    \/ \E c \in Owners, id \in Ids(works), di \in {0, 1}, t \in Texts \cup {""} :
         UpdateWorkBegin(p, c[1], c[2], id, 0, 0, di, t)
    \/ UpdateWorkDescCreate(p)
    \/ UpdateWorkWrite(p)
    \/ \E c \in Owners, di \in {0, 1}, t \in Texts \cup {""} :
         CreateExportBegin(p, c[1], c[2], 0, "acme", 1, 1, di, t, FALSE)
    \/ CreateExportDescCreate(p)
    \/ CreateExportPrice(p)
    \/ CreateExportCompanyCreate(p)
    \/ CreateExportInsert(p)
    \/ \E c \in Owners, id \in Ids(exports), n \in {"", "bolt"}, di \in {0, 1},
          t \in Texts \cup {""} :
         UpdateExportBegin(p, c[1], c[2], id, -1, n, 0, 3, di, t, TRUE)
    \/ UpdateExportCompanyCreate(p)
    \/ UpdateExportDesc(p)
    \/ UpdateExportDescCreate(p)
    \/ UpdateExportWrite(p)

SpecDesc == Init /\ [][NextDesc]_vars

(***************************************************************************)
(* Work and attendance of the workers recorded one request at a time, and  *)
(* the read routes asked by the OWNER and by a WORKER.                     *)
(***************************************************************************)
Workers == { c \in Callers : c[2] = "WORKER" }
QueryCallers == { c \in Callers : c[1] \in {1, 2} }
\* an instant of the first UTC day and one of a later day
QueryDates == {0, LastInstant}
PathUserIds == {2, 3, GhostUser}
QueryUserIds == {0, 2, 3}
QueryUserIdStrings == {"", "0", "3", "x"}

NextQuery ==
  \E p \in {1} :
    \/ \E c \in Workers, t \in QueryDates : CreateWorkBegin(p, c[1], c[2], t, 2, 3, 0, "cut", 0)
    \/ CreateWorkDescCreate(p)
    \/ CreateWorkTxFind(p)
    \/ CreateWorkTxCommit(p)
    \/ \E c \in Owners, t \in QueryDates, u \in {2, 3}, st \in {"HALF_DAY", "LEAVE"} :
         CreateAttendanceBegin(p, c[1], c[2], t, u, st)
    \/ CreateAttendanceInsert(p)
    \/ \E c \in QueryCallers, a \in PathUserIds, b \in PathUserIds :
         GetWorkByUserAndDate(p, c[1], c[2], a, b, 0)
    \/ \E c \in QueryCallers, a \in QueryUserIds, b \in QueryUserIds,
          r \in {<<{}, {}>>, <<{0}, {LastInstant}>>, <<{LastInstant}, {}>>} :
         GetWorkStatistics(p, c[1], c[2], a, b, r[1], r[2])
    \/ \E c \in QueryCallers, a \in QueryUserIdStrings, b \in QueryUserIdStrings :
         GetAttendance(p, c[1], c[2], a, b, 0)
    \/ \E c \in QueryCallers, a \in QueryUserIdStrings, b \in QueryUserIdStrings :
         GetAttendanceRange(p, c[1], c[2], a, b, 0, LastInstant)
    \/ \E c \in QueryCallers, a \in QueryUserIdStrings, b \in QueryUserIdStrings :
         GetAttendanceSummary(p, c[1], c[2], a, b, 0, LastInstant)

SpecQuery == Init /\ [][NextQuery]_vars

(***************************************************************************)
(* Profile updates by every account, running concurrently.                 *)
(***************************************************************************)
UserIdInputs == {1, 2, 3}
\* bodies: no field, a new email with a new name and salary, a taken email
ProfileInputs == { <<"", "", 0>>, <<"new", "n2", 5>>, <<"admin", "", 0>> }
RoleInputs == {"undefined", "null", "OWNER", "WORKER"}

NextUsers ==
  \E p \in Procs :
    \/ \E c \in SyncCallers, id \in UserIdInputs, b \in ProfileInputs, ro \in RoleInputs :
         UpdateUserBegin(p, c[1], c[2], id, b[1], b[2], ro, b[3])
    \/ UpdateUserEmailCheck(p)
    \/ UpdateUserWrite(p)

SpecUsers == Init /\ [][NextUsers]_vars

(***************************************************************************)
(* The OWNER-only routes asked by every account, running concurrently.     *)
(***************************************************************************)
OwnerReadRoutes ==
  OwnerOnlyRoutes \ {"createUser", "deleteUser", "createAttendance",
                      "updateAttendanceStatus", "createCompanyExpense",
                      "createHomeExpense", "updateExpense", "deleteExpense",
                      "createExport", "updateExport", "deleteExport"}

NextGuard ==
  \E p \in Procs :
    \/ \E c \in Callers, op \in OwnerOnlyRoutes : GuardRefuses(p, op, c[1], c[2])
    \/ \E c \in Callers, op \in OwnerReadRoutes : OwnerReads(p, op, c[1], c[2])
    \/ \E c \in Callers : CreateUserBegin(p, c[1], c[2], "new", "n2", "pw", "WORKER", 0)
    \/ CreateUserInsert(p)
    \/ \E c \in Callers : DeleteUserBegin(p, c[1], c[2], 3)
    \/ DeleteUserDelete(p)
    \/ \E c \in Callers : CreateAttendanceBegin(p, c[1], c[2], 0, 2, "LEAVE")
    \/ CreateAttendanceInsert(p)
    \/ \E c \in Callers : UpdateAttendanceStatusBegin(p, c[1], c[2], 0, 2, "ABSENT")
    \/ UpdateAttendanceStatusWrite(p)
    \/ \E c \in Callers : CreateCompanyExpense(p, c[1], c[2], "HOME", "rent", 1, {0})
    \/ \E c \in Callers : CreateHomeExpense(p, c[1], c[2], "HOME", "rent", 1, {0})
    \/ \E c \in Callers : UpdateExpenseBegin(p, c[1], c[2], 1, "", "", 2)
    \/ UpdateExpenseWrite(p)
    \/ \E c \in Callers : DeleteExpenseBegin(p, c[1], c[2], 1)
    \/ DeleteExpenseDelete(p)
    \/ \E c \in Callers : CreateExportBegin(p, c[1], c[2], 0, "acme", 1, 1, 0, "cut", FALSE)
    \/ CreateExportDescCreate(p)
    \/ CreateExportPrice(p)
    \/ CreateExportCompanyCreate(p)
    \/ CreateExportInsert(p)

SpecGuard == Init /\ [][NextGuard]_vars

(***************************************************************************)
(* Accounts created and profiles updated by the OWNER, running             *)
(* concurrently, with one free and one taken email.                        *)
(***************************************************************************)
EmailInputs == {"new", "admin"}

NextEmail ==
  \E p \in Procs :
    \/ \E c \in Owners, e \in EmailInputs :
         CreateUserBegin(p, c[1], c[2], e, "n2", "pw", "WORKER", 0)
    \/ CreateUserInsert(p)
    \/ \E c \in Owners, id \in {2, 3}, e \in EmailInputs, ro \in {"undefined", "null"} :
         UpdateUserBegin(p, c[1], c[2], id, e, "", ro, 0)
    \/ UpdateUserEmailCheck(p)
    \/ UpdateUserWrite(p)

SpecEmail == Init /\ [][NextEmail]_vars

(***************************************************************************)
(* Password changes by the OWNER and a WORKER, running concurrently.       *)
(***************************************************************************)
\* the seeded passwords and one set by an earlier change
CurrentPasswordInputs == {"Admin@123", "Worker@123", "p1"}
NewPasswordInputs == {"p1", "p2"}

NextPassword ==
  \E p \in Procs :
    \/ \E c \in SyncCallers, id \in {1, 2, GhostUser},
          cur \in CurrentPasswordInputs, new \in NewPasswordInputs :
         ChangePasswordBegin(p, c[1], c[2], id, cur, new)
    \/ ChangePasswordWrite(p)

SpecPassword == Init /\ [][NextPassword]_vars

(***************************************************************************)
(* Work entries whose body names a user, recorded concurrently, on days    *)
(* with and without an attendance row.                                     *)
(***************************************************************************)
\* CreateWorkDto.userId: absent, the caller, another user, no user
BodyUserIds == {0, 1, 2, GhostUser}

NextBody ==
  \E p \in Procs :
    \/ \E c \in SyncCallers, u \in BodyUserIds :
         CreateWorkBegin(p, c[1], c[2], 0, 1, 1, 0, "cut", u)
    \/ CreateWorkDescCreate(p)
    \/ CreateWorkTxFind(p)
    \/ CreateWorkTxCommit(p)
    \/ \E c \in Owners, u \in SyncUsers : CreateAttendanceBegin(p, c[1], c[2], 0, u, "ABSENT")
    \/ CreateAttendanceInsert(p)

SpecBody == Init /\ [][NextBody]_vars

(***************************************************************************)
(* Manual attendance records of a stored and of an unknown user, next to   *)
(* the work entries of the stored user, running concurrently.              *)
(***************************************************************************)
\* dto.userId: a WORKER and an id no row has
ManualUserIds == {2, GhostUser}
\* an instant inside the first UTC day and the last instant
ManualDates == {1, LastInstant}

NextAttendance ==
  \E p \in Procs :
    \/ \E c \in Workers, d \in ManualDates :
         CreateWorkBegin(p, c[1], c[2], d, 1, 1, 0, "cut", 0)
    \/ CreateWorkDescCreate(p)
    \/ CreateWorkTxFind(p)
    \/ CreateWorkTxCommit(p)
    \/ \E c \in Owners, d \in ManualDates, u \in ManualUserIds, st \in {"ABSENT", "HALF_DAY"} :
         CreateAttendanceBegin(p, c[1], c[2], d, u, st)
    \/ CreateAttendanceInsert(p)
    \/ \E c \in Owners, d \in ManualDates, u \in ManualUserIds, st \in {"LEAVE", "PRESENT"} :
         UpdateAttendanceStatusBegin(p, c[1], c[2], d, u, st)
    \/ UpdateAttendanceStatusWrite(p)

SpecAttendance == Init /\ [][NextAttendance]_vars

(***************************************************************************)
(* Salary payments of two workers and the monthly balance, running         *)
(* concurrently with a change of the monthly salary.                       *)
(***************************************************************************)
PaidUserIds == {2, 3}
PaymentAmounts == {1, 2}
\* dto.date: the last instant of the first month, or none (the payment is
\* dated now)
PaymentDates == { {MonthEnd(0)}, {} }
\* month: the month of the first instant, of the last instant, or none
MonthInputs == { {0}, {CurrentMonth(LastInstant)}, {} }

NextSalary ==
  \E p \in Procs :
    \/ \E c \in Owners, u \in PaidUserIds, a \in PaymentAmounts, d \in PaymentDates :
         CreateSalaryPaymentBegin(p, c[1], c[2], u, a, d)
    \/ CreateSalaryPaymentInsert(p)
    \/ \E c \in Owners, id \in 1 .. (paySeq + 1) : DeleteSalaryPaymentBegin(p, c[1], c[2], id)
    \/ DeleteSalaryPaymentDelete(p)
    \/ \E c \in Owners, u \in {2, GhostUser}, m \in MonthInputs :
         GetWorkerDetailsBegin(p, c[1], c[2], u, m)
    \/ GetWorkerDetailsRead(p)
    \/ \E c \in Owners : UpdateUserBegin(p, c[1], c[2], 2, "", "", "undefined", 5)
    \/ UpdateUserWrite(p)

SpecSalary == Init /\ [][NextSalary]_vars

(***************************************************************************)
(* Expenses recorded, changed and read by the OWNER.                       *)
(***************************************************************************)
\* query.type: none, or one of the two types
QueryTypes == {""} \cup ExpenseType
ExpenseListRoutes == {"getCompanyExpenses", "getHomeExpenses", "getAllExpenses"}
ExpenseStatisticsRoutes ==
  {"getCompanyStatistics", "getHomeStatistics", "getExpenseStatistics"}

NextFinance ==
  \E p \in Procs :
    \/ \E c \in Owners, t \in ExpenseType, a \in {1, 2} :
         CreateCompanyExpense(p, c[1], c[2], t, "rent", a, {0})
    \/ \E c \in Owners, t \in ExpenseType, a \in {1, 2} :
         CreateHomeExpense(p, c[1], c[2], t, "food", a, {})
    \/ \E c \in Owners, id \in 1 .. (expenseSeq + 1), t \in QueryTypes :
         UpdateExpenseBegin(p, c[1], c[2], id, t, "", 0)
    \/ UpdateExpenseWrite(p)
    \/ \E c \in Owners, op \in ExpenseListRoutes, t \in QueryTypes, cat \in {"", "rent"} :
         GetExpenses(p, op, c[1], c[2], t, cat, {}, {0})
    \/ \E c \in Owners, op \in ExpenseStatisticsRoutes, t \in QueryTypes :
         GetExpenseStatistics(p, op, c[1], c[2], t, {0}, {})

SpecFinance == Init /\ [][NextFinance]_vars

(***************************************************************************)
(* Statements that fail with a known request error, running concurrently.  *)
(***************************************************************************)
NextFilter ==
  \E p \in Procs :
    \/ \E code \in PrismaCodes : StatementBegin(p, code)
    \/ KnownRequestError(p)

SpecFilter == Init /\ [][NextFilter]_vars

(***************************************************************************)
(* Work entries created and deleted by two users, running concurrently,    *)
(* with no manual attendance edit.                                         *)
(***************************************************************************)
NextSync ==
  \E p \in Procs :
    \/ \E c \in SyncCallers, d \in Instants :
         CreateWorkBegin(p, c[1], c[2], d, 1, 1, 0, "cut", 0)
    \/ CreateWorkDescCreate(p)
    \/ CreateWorkTxFind(p)
    \/ CreateWorkTxCommit(p)
    \/ \E c \in SyncCallers, id \in WorkIdInputs : DeleteWorkBegin(p, c[1], c[2], id)
    \/ DeleteWorkTxCommit(p)

SpecSync == Init /\ [][NextSync]_vars

(***************************************************************************)
(* Work entries created, updated and deleted concurrently, with the        *)
(* quantity and the price of an update each supplied or left out.          *)
(***************************************************************************)
\* 0: the body carries no such field
SuppliedQuantities == {0} \cup Quantities
SuppliedPrices == {0} \cup Prices

NextAmount ==
  \E p \in Procs :
    \/ \E c \in Owners, q \in Quantities :
         CreateWorkBegin(p, c[1], c[2], 0, q, 1, 0, "cut", 0)
    \/ CreateWorkDescCreate(p)
    \/ CreateWorkTxFind(p)
    \/ CreateWorkTxCommit(p)
    \/ \E c \in Owners, id \in WorkIdInputs, q \in SuppliedQuantities, pr \in SuppliedPrices :
         UpdateWorkBegin(p, c[1], c[2], id, q, pr, 0, "")
    \/ UpdateWorkWrite(p)
    \/ \E c \in Owners, id \in WorkIdInputs : DeleteWorkBegin(p, c[1], c[2], id)
    \/ DeleteWorkTxCommit(p)

SpecAmount == Init /\ [][NextAmount]_vars

(***************************************************************************)
(* Every request that writes a Work row, an Attendance row or removes the  *)
(* user they belong to, running concurrently.                              *)
(***************************************************************************)
NextLink ==
  \E p \in Procs :
    \/ \E c \in SyncCallers, d \in Instants :
         CreateWorkBegin(p, c[1], c[2], d, 1, 1, 0, "cut", 0)
    \/ CreateWorkDescCreate(p)
    \/ CreateWorkTxFind(p)
    \/ CreateWorkTxCommit(p)
    \/ \E c \in Owners, id \in WorkIdInputs : UpdateWorkBegin(p, c[1], c[2], id, 2, 0, 0, "")
    \/ UpdateWorkWrite(p)
    \/ \E c \in SyncCallers, id \in WorkIdInputs : DeleteWorkBegin(p, c[1], c[2], id)
    \/ DeleteWorkTxCommit(p)
    \/ \E c \in Owners, d \in Instants, u \in SyncUsers :
         CreateAttendanceBegin(p, c[1], c[2], d, u, "LEAVE")
    \/ CreateAttendanceInsert(p)
    \/ \E c \in Owners, d \in Instants, u \in SyncUsers :
         UpdateAttendanceStatusBegin(p, c[1], c[2], d, u, "ABSENT")
    \/ UpdateAttendanceStatusWrite(p)
    \/ \E c \in Owners : DeleteUserBegin(p, c[1], c[2], 2)
    \/ DeleteUserDelete(p)

SpecLink == Init /\ [][NextLink]_vars

(***************************************************************************)
(* Updates and deletes by id of every table, addressed to stored ids and   *)
(* to the next id not yet handed out, running concurrently with the        *)
(* requests that create the rows.                                          *)
(***************************************************************************)
NextById ==
  \E p \in Procs :
    \/ \E c \in Owners : CreateWorkBegin(p, c[1], c[2], 0, 1, 1, 0, "cut", 0)
    \/ CreateWorkDescCreate(p)
    \/ CreateWorkTxFind(p)
    \/ CreateWorkTxCommit(p)
    \/ \E c \in SyncCallers, id \in WorkIdInputs, t \in {"", "sew"} :
         UpdateWorkBegin(p, c[1], c[2], id, 2, 0, 0, t)
    \/ UpdateWorkDescCreate(p)
    \/ UpdateWorkWrite(p)
    \/ \E c \in SyncCallers, id \in WorkIdInputs : DeleteWorkBegin(p, c[1], c[2], id)
    \/ DeleteWorkTxCommit(p)
    \/ \E c \in Owners : CreateCompanyExpense(p, c[1], c[2], "COMPANY", "rent", 1, {0})
    \/ \E c \in Owners, id \in 1 .. (expenseSeq + 1) :
         UpdateExpenseBegin(p, c[1], c[2], id, "", "", 2)
    \/ UpdateExpenseWrite(p)
    \/ \E c \in Owners, id \in 1 .. (expenseSeq + 1) : DeleteExpenseBegin(p, c[1], c[2], id)
    \/ DeleteExpenseDelete(p)
    \/ \E c \in Owners : CreateExportBegin(p, c[1], c[2], 0, "acme", 1, 1, 0, "cut", FALSE)
    \/ CreateExportDescCreate(p)
    \/ CreateExportPrice(p)
    \/ CreateExportCompanyCreate(p)
    \/ CreateExportInsert(p)
    \/ \E c \in Owners, id \in 1 .. (expSeq + 1) :
         UpdateExportBegin(p, c[1], c[2], id, -1, "bolt", 0, 0, 0, "hem", FALSE)
    \/ UpdateExportCompanyCreate(p)
    \/ UpdateExportDesc(p)
    \/ UpdateExportDescCreate(p)
    \/ UpdateExportWrite(p)
    \/ \E c \in Owners, id \in 1 .. (expSeq + 1) : DeleteExportBegin(p, c[1], c[2], id)
    \/ DeleteExportDelete(p)
    \/ \E c \in SyncCallers, id \in {2, GhostUser}, ro \in {"undefined", "WORKER"} :
         UpdateUserBegin(p, c[1], c[2], id, "new", "n2", ro, 0)
    \/ UpdateUserEmailCheck(p)
    \/ UpdateUserWrite(p)
    \/ \E c \in Owners, id \in {2, GhostUser} : DeleteUserBegin(p, c[1], c[2], id)
    \/ DeleteUserDelete(p)
    \/ \E c \in Workers : GuardRefuses(p, "deleteUser", c[1], c[2])
    \/ \E c \in Owners : CreateSalaryPaymentBegin(p, c[1], c[2], 2, 1, {})
    \/ CreateSalaryPaymentInsert(p)
    \/ \E c \in Owners, id \in 1 .. (paySeq + 1) : DeleteSalaryPaymentBegin(p, c[1], c[2], id)
    \/ DeleteSalaryPaymentDelete(p)

SpecById == Init /\ [][NextById]_vars

(***************************************************************************)
(* Statistics read while work entries of two users are created and         *)
(* deleted.                                                                *)
(***************************************************************************)
\* query.userId: none (0) or a user; query.endDate: none or the first day
StatisticsUserIds == {0, 2}
StatisticsEndDates == {{}, {0}}

NextStatistics ==
  \E p \in Procs :
    \/ \E c \in SyncCallers, d \in {0, LastInstant}, q \in Quantities :
         CreateWorkBegin(p, c[1], c[2], d, q, 1, 0, "cut", 0)
    \/ CreateWorkDescCreate(p)
    \/ CreateWorkTxFind(p)
    \/ CreateWorkTxCommit(p)
    \/ \E c \in Owners, id \in WorkIdInputs : DeleteWorkBegin(p, c[1], c[2], id)
    \/ DeleteWorkTxCommit(p)
    \/ \E c \in SyncCallers, u \in StatisticsUserIds, e \in StatisticsEndDates :
         GetWorkStatisticsAggregate(p, c[1], c[2], u, {}, e)
    \/ GetWorkStatisticsGroupBy(p)
    \/ GetWorkStatisticsFindMany(p)
    \/ GetWorkStatisticsUsers(p)

SpecStatistics == Init /\ [][NextStatistics]_vars

(***************************************************************************)
(* Properties of the work / attendance synchronization.                    *)
(***************************************************************************)
\* the UTC day an instant lies in
UtcDay(t) == t \div DayLen

\* the request of p ends in this step
Ends(p, op, step) ==
  /\ req[p].op = op /\ req[p].step = step
  /\ req'[p] = NoReq

\* C1: at every reachable state there is at most one Attendance row for
\* each (userId, UTC day) pair, whatever createWork, deleteWork,
\* createAttendance and updateAttendanceStatus calls ran and interleaved.
C1_OneAttendancePerUserDay ==
  \A a, b \in attendance :
    (a.userId = b.userId /\ UtcDay(a.date) = UtcDay(b.date)) => a = b

\* a second insert for a (user, day) that raced with the first was refused
C1_Witness ==
  /\ last.op \in {"createWork", "updateAttendanceStatus", "createAttendance"}
  /\ last.outcome = "P2002_date_userId"
  /\ \E a \in attendance : a.userId = last.userId /\ a.date = last.date

\* C2: after every successful createWork(userId, dto) an Attendance row
\* exists for (userId, normalized dto.date) and its status is PRESENT,
\* whether or not a row existed before and whatever its status was.
C2_CreateWorkMarksPresent ==
  (last.op = "createWork" /\ last.outcome = "ok") =>
    \E a \in attendance :
      a.userId = last.userId /\ a.date = last.date /\ a.status = "PRESENT"

\* a createWork succeeded on a day whose Attendance row it did not create
C2_Witness ==
  /\ last.op = "createWork" /\ last.outcome = "ok"
  /\ \E a \in attendance :
       a.userId = last.userId /\ a.date = last.date /\ a.workId # last.res

\* C3 as stated: after every successful deleteWork the Attendance row of the
\* Work's user and date has status ABSENT and a null workId.
C3_DeleteWorkRevertsDay ==
  (last.op = "deleteWork" /\ last.outcome = "ok") =>
    \E a \in attendance :
      /\ a.userId = last.userId /\ a.date = last.date
      /\ a.status = "ABSENT" /\ a.workId = 0

\* C4: the Work write and the Attendance write of one createWork call and
\* of one deleteWork call are committed together or not at all: a step that
\* stores a Work row leaves a PRESENT Attendance row for its user and date,
\* a step that removes a Work row leaves no row referencing it and the row
\* that referenced it ABSENT, a createWork or deleteWork that fails changes
\* neither table, and no other step changes the Work table.
C4_WorkAndAttendanceAtomic ==
  [][/\ \A w \in works' \ works :
          \E a \in attendance' :
            a.userId = w.userId /\ a.date = w.date /\ a.status = "PRESENT"
     /\ \A w \in works \ works' :
          /\ ~ \E a \in attendance' : a.workId = w.id
          /\ \A a \in attendance :
               a.workId = w.id =>
                 [a EXCEPT !.status = "ABSENT", !.workId = 0] \in attendance'
     /\ (last'.op \in {"createWork", "deleteWork"} /\ last'.outcome # "ok") =>
          (works' = works /\ attendance' = attendance)
     /\ works' # works =>
          (last'.op \in {"createWork", "deleteWork", "updateWork"} /\ last'.outcome = "ok")
    ]_vars

\* a createWork transaction was rolled back by its rejected Attendance write
C4_Witness ==
  /\ last.op = "createWork" /\ last.outcome = "P2002_date_userId"
  /\ ~ \E w \in works : w.userId = last.userId /\ w.date = last.date

\* C5: a createWork for a (user, date) is never rejected by a uniqueness
\* conflict when the user already has a Work row on that date.
C5_CreateWorkNeverRejected ==
  (/\ last.op = "createWork"
   /\ \E w \in works : w.userId = last.userId /\ w.date = last.date)
    => last.outcome # "P2002_date_userId"

(***************************************************************************)
(* Properties of the shared WorkDescription table.                         *)
(***************************************************************************)
\* the request carries a text and no descriptionId that takes precedence
\* over it: in WorkService any truthy descriptionId does, in ExportsService
\* a descriptionId whose row exists
ResolvesByText(r) ==
  /\ r.text # ""
  /\ IF r.op \in {"createExport", "updateExport"}
       THEN ~ (Truthy(r.dtoDescId) /\ r.dtoDescId \in Ids(descriptions))
       ELSE ~ Truthy(r.dtoDescId)

\* C6: no two WorkDescription rows carry the same text; a row is inserted
\* only for a text that no stored row carries; and a createWork, updateWork,
\* createExport or updateExport request that resolves its description by a
\* text that is stored when it looks the text up goes on with the id of the
\* row that carries the text, as createDescription answers with that id,
\* and none of them inserts a row.
C6_DescriptionsDeduplicated ==
  [][ /\ \A d1, d2 \in descriptions' : d1.text = d2.text => d1.id = d2.id
      /\ \A d \in descriptions' :
           d.id \notin Ids(descriptions) => ~ \E e \in descriptions : e.text = d.text
      /\ \A p \in Procs :
           ( /\ req'[p].op \in {"createWork", "updateWork", "createExport", "updateExport"}
             /\ Truthy(req'[p].descId) /\ req'[p].descId # req[p].descId
             /\ ResolvesByText(req'[p])
             /\ Truthy(DescriptionByText(req'[p].text)) )
           => /\ req'[p].descId = DescriptionByText(req'[p].text)
              /\ Ids(descriptions') = Ids(descriptions)
      /\ ( /\ issued' # issued /\ last'.op = "createDescription"
           /\ Truthy(DescriptionByText(last'.text)) )
         => /\ last'.outcome = "ok"
            /\ last'.res = DescriptionByText(last'.text)
            /\ Ids(descriptions') = Ids(descriptions)
    ]_vars

\* a text first stored by createWork is reused by a createExport request
\* and by a createDescription call, with one row in the table
C6_Witness ==
  /\ Cardinality(descriptions) = 1
  /\ \E p \in Procs, w \in works :
       /\ req[p].op = "createExport" /\ req[p].step = "ce_price"
       /\ req[p].byText /\ req[p].descId = w.descriptionId
       /\ Row(descriptions, w.descriptionId).text = req[p].text
  /\ \E d \in descriptions :
       last.op = "createDescription" /\ last.outcome = "ok"
         /\ last.res = d.id /\ last.text = d.text

\* C7: every createDescription call with text t is answered with the
\* WorkDescription row whose text is t, never with a uniqueness error.
C7_CreateDescriptionIdempotent ==
  last.op = "createDescription"
    => /\ last.outcome = "ok"
       /\ last.res \in Ids(descriptions)
       /\ Row(descriptions, last.res).text = last.text

(***************************************************************************)
(* Properties of the ownership rule.                                       *)
(***************************************************************************)
OwnershipOps == {"getWorkById", "updateWork", "deleteWork"}

\* C8: a getWorkById, updateWork or deleteWork request of a WORKER for a
\* stored Work row of another user is answered Forbidden and leaves Work
\* and Attendance as they were; no other such request, an OWNER's or a
\* WORKER's for a row of their own, is answered Forbidden.
C8_WorkerOwnRowsOnly ==
  [][ last'.op \in OwnershipOps
        => IF /\ last'.id \in Ids(works)
              /\ last'.role = "WORKER"
              /\ Row(works, last'.id).userId # last'.sub
             THEN /\ last'.outcome = "Forbidden"
                  /\ works' = works
                  /\ attendance' = attendance
             ELSE last'.outcome # "Forbidden"
    ]_vars

\* a WORKER was refused the delete of another user's stored Work row
C8_Witness ==
  /\ last.op = "deleteWork" /\ last.outcome = "Forbidden" /\ last.role = "WORKER"
  /\ \E w \in works : w.id = last.id /\ w.userId # last.sub

(***************************************************************************)
(* Properties of the read routes.                                          *)
(***************************************************************************)
ReadOps == {"getWorkByUserAndDate", "getWorkStatistics", "getAttendance",
            "getAttendanceRange", "getAttendanceSummary"}

\* C9: when a WORKER makes one of the five read requests twice on the same
\* database state with two userId values, both are answered alike, with
\* the same body, computed from rows of the caller only.
C9_WorkerReadsOwnRowsOnly ==
  (last.op \in ReadOps /\ last.role = "WORKER")
    => /\ resA.outcome = resB.outcome
       /\ resA.body = resB.body
       /\ resA.userIds \subseteq {last.sub}
       /\ resB.userIds \subseteq {last.sub}

\* a WORKER with attendance of their own asked for the summary of a range
\* in which another user has attendance too, naming that user
C9_Witness ==
  /\ last.op = "getAttendanceSummary" /\ last.role = "WORKER"
  /\ resA.param # resB.param
  /\ resA.userIds = {last.sub}
  /\ \E a \in attendance :
       /\ a.userId # last.sub
       /\ a.date >= resA.body.from /\ a.date <= resA.body.to
       /\ resA.param = "3" /\ parseInt(resA.param) = a.userId

(***************************************************************************)
(* Properties of the profile update.                                       *)
(***************************************************************************)
\* C10: a step of a PUT users/:id request whose caller is not an OWNER
\* leaves every user's role and every row but the caller's as they were;
\* such a request addressed to another id or carrying a role is answered
\* Forbidden at once, with the User table unchanged, and never gets to
\* the service.
C10_NonOwnerUpdatesOwnProfileOnly ==
  [][ /\ \A p \in Procs :
           (req[p].op = "updateUser" /\ req[p].role # "OWNER" /\ req'[p] # req[p])
             => /\ Ids(users') = Ids(users)
                /\ \A u \in users :
                     /\ Row(users', u.id).role = u.role
                     /\ u.id # req[p].sub => Row(users', u.id) = u
      /\ \A p \in Procs :
           (req'[p].op = "updateUser" /\ req'[p].role # "OWNER")
             => req'[p].id = req'[p].sub /\ req'[p].dtoRole \notin Role
      /\ ( /\ issued' # issued /\ last'.op = "updateUser" /\ last'.role # "OWNER"
           /\ (last'.id # last'.sub \/ last'.dtoRole \in Role) )
         => last'.outcome = "Forbidden" /\ users' = users
    ]_vars

\* a WORKER who had changed their own name was refused an update of their
\* own profile that carried a role
C10_Witness ==
  /\ last.op = "updateUser" /\ last.outcome = "Forbidden"
  /\ last.role = "WORKER" /\ last.id = last.sub /\ last.dtoRole = "OWNER"
  /\ Row(users, last.sub).name = "n2" /\ Row(users, last.sub).role = "WORKER"

(***************************************************************************)
(* Properties of the route guards.                                         *)
(***************************************************************************)
\* C11: a request by a WORKER to a route annotated OWNER-only is refused
\* before its handler runs: no such request is ever in flight inside a
\* service, and the step that answers it answers Forbidden and leaves every
\* table unchanged.
C11_OwnerOnlyRoutesRefuseWorkers ==
  [][ /\ \A p \in Procs :
           req'[p].op \in OwnerOnlyRoutes => req'[p].role # "WORKER"
      /\ (last'.op \in OwnerOnlyRoutes /\ last'.role = "WORKER")
           => (last'.outcome = "Forbidden" /\ dbVars' = dbVars) ]_vars

\* a WORKER was refused on a writing OWNER-only route after rows were stored
C11_Witness ==
  /\ last.op = "createAttendance" /\ last.role = "WORKER"
  /\ last.outcome = "Forbidden"
  /\ attendance # {} /\ expenses # {}

(***************************************************************************)
(* Properties of the User table.                                           *)
(***************************************************************************)
EmailsUnique == \A u, v \in users : u.email = v.email => u.id = v.id

\* the email is stored for a user other than id (id 0: for any user)
EmailOfAnother(email, id) == \E u \in users : u.email = email /\ u.id # id

\* this step answers a create, or an update of a stored user, that names an
\* email stored for another user
AnswersTakenEmail ==
  /\ last'.op \in {"createUser", "updateUser"}
  /\ last'.op = "updateUser" => last'.id \in Ids(users)
  /\ EmailOfAnother(last'.email, last'.id)

PasswordVerdict(role, sub, id, currentPassword) ==
  IF role # "OWNER" /\ sub # id THEN "Forbidden"
  ELSE IF id \notin Ids(users) THEN "NotFound"
  ELSE IF ~ compare(currentPassword, Row(users, id).password) THEN "BadRequest"
  ELSE "ok"

\* C13: a changePassword request goes on to replace the password only when
\* the caller is the OWNER or the user id, id is stored and currentPassword
\* matches the password stored for id when the request reads the row;
\* otherwise it is answered Forbidden, NotFound or BadRequest at once and no
\* row changes.  A row changes only through such a request, and only in its
\* password, which then matches newPassword.
C13_PasswordReplacedOnlyOnMatch ==
  [][ /\ \A p \in Procs :
           (req[p].op = "idle" /\ req'[p].op = "changePassword")
             => PasswordVerdict(req'[p].role, req'[p].sub, req'[p].id,
                                req'[p].password) = "ok"
      /\ (issued' # issued /\ last'.op = "changePassword")
           => /\ last'.outcome =
                   PasswordVerdict(last'.role, last'.sub, last'.id, last'.password)
              /\ last'.outcome # "ok"
              /\ users' = users
      /\ users' # users
           => \E p \in Procs :
                /\ req[p].op = "changePassword" /\ req'[p].op = "idle"
                /\ \E u \in users, v \in users' :
                     /\ u.id = req[p].id /\ v.id = u.id
                     /\ users' \ {v} = users \ {u}
                     /\ [v EXCEPT !.password = u.password] = u
                     /\ compare(req[p].newPassword, v.password) ]_vars

\* the OWNER replaced the password of another user
C13_Witness ==
  /\ last.op = "changePassword" /\ last.outcome = "ok"
  /\ last.role = "OWNER" /\ last.sub # last.id
  /\ \E u \in users : u.id = last.id /\ compare("p1", u.password)

(***************************************************************************)
(* Properties of the owner of a work entry.                                *)
(***************************************************************************)
\* C14: the step in which a createWork request stores its rows stores the
\* Work row, and creates or updates the Attendance row, under the id of the
\* caller (req.user.sub), whatever userId the body carries; no row of
\* another user is added or changed by the request.
C14_WorkStoredUnderCaller ==
  [][ \A p \in Procs :
        (req[p].op = "createWork" /\ req'[p].op = "idle")
          => /\ \A w \in works' \ works : w.userId = req[p].sub
             /\ \A a \in attendance' \ attendance : a.userId = req[p].sub
             /\ \A a \in attendance \ attendance' : a.userId = req[p].sub
             /\ last'.outcome = "ok" => \E w \in works' \ works : w.id = last'.res ]_vars

\* a createWork whose body names another user stored its Work row, and
\* marked the Attendance row, of the caller
C14_Witness ==
  /\ last.op = "createWork" /\ last.outcome = "ok"
  /\ Truthy(last.dtoUserId) /\ last.dtoUserId # last.sub
  /\ \E w \in works : w.id = last.res /\ w.userId = last.sub
  /\ \E a \in attendance :
       a.userId = last.sub /\ a.date = last.date /\ a.status = "PRESENT"
  /\ \E a \in attendance : a.userId = last.dtoUserId /\ a.status = "ABSENT"

(***************************************************************************)
(* Properties of the manual attendance records.                            *)
(***************************************************************************)
\* the Attendance row of the user and day the answered request names
RowOfAnswer == { a \in attendance : a.userId = last'.userId /\ a.date = last'.date }

\* the request answered in this step was made by a stored OWNER
AnswersManual(op) == last'.op = op /\ last'.role = "OWNER"

\* C15: createAttendance for a user and day that have an Attendance row is
\* answered 409 Conflict and for an unknown user 404 Not Found, the table
\* unchanged; otherwise it adds exactly one row, of that user and day, with
\* the given status and no workId.
C15_CreateAttendanceContract ==
  [][ AnswersManual("createAttendance") =>
        IF last'.userId \notin Ids(users)
          THEN HttpStatus(last'.outcome) = 404 /\ attendance' = attendance
        ELSE IF RowOfAnswer # {}
          THEN HttpStatus(last'.outcome) = 409 /\ attendance' = attendance
        ELSE /\ last'.outcome = "ok"
             /\ attendance \subseteq attendance'
             /\ \E a \in attendance' \ attendance :
                  /\ attendance' = attendance \cup {a}
                  /\ a.userId = last'.userId /\ a.date = last'.date
                  /\ a.date % DayLen = 0
                  /\ a.status = last'.status /\ a.workId = 0 ]_vars

\* a manual record was added for a day given by an instant inside the day
C15_Witness ==
  /\ last.op = "createAttendance" /\ last.outcome = "ok"
  /\ \E a \in attendance :
       a.id = last.res /\ a.status = "HALF_DAY" /\ a.workId = 0 /\ a.date = 0
  /\ Cardinality(attendance) > 1

\* C16: updateAttendanceStatus for an unknown user is answered NotFound and
\* changes nothing; a request that succeeds changes only the status of the
\* row of that user and day when there is one (its workId, and every other
\* row, unchanged) and otherwise adds one row with that status and no
\* workId; a request that fails changes nothing.
C16_UpdateStatusIsUpsert ==
  [][ AnswersManual("updateAttendanceStatus") =>
        IF last'.userId \notin Ids(users)
          THEN last'.outcome = "NotFound" /\ attendance' = attendance
        ELSE IF last'.outcome # "ok"
          THEN attendance' = attendance
        ELSE IF RowOfAnswer # {}
          THEN \E a \in RowOfAnswer :
                 attendance' = (attendance \ {a})
                                 \cup {[a EXCEPT !.status = last'.status]}
        ELSE \E a \in attendance' \ attendance :
               /\ attendance' = attendance \cup {a}
               /\ a.userId = last'.userId /\ a.date = last'.date
               /\ a.status = last'.status /\ a.workId = 0 ]_vars

\* the status of a row linked to a Work row was set by hand: the link stays
C16_Witness ==
  /\ last.op = "updateAttendanceStatus" /\ last.outcome = "ok"
  /\ \E a \in attendance :
       a.id = last.res /\ a.status = "LEAVE" /\ a.workId \in Ids(works)

(***************************************************************************)
(* Properties of the monthly balance.                                      *)
(***************************************************************************)
\* the month an instant lies in
InMonth(t, m) == t \div MonthLen = m

\* the SalaryPayment rows of the user stored for the month
StoredPayments(userId, m) ==
  { s \in salaryPayments : s.userId = userId /\ InMonth(s.date, m) }

\* C17: the response of getWorkerDetails for a user and month carries, as
\* totalPaidThisMonth, the sum of the amounts of exactly the SalaryPayment
\* rows of that user stored for that month when the payments are read, and
\* as remainingSalary the monthly salary (0 when null) less that sum.
C17_MonthlyBalance ==
  [][ last'.op = "getWorkerDetails" /\ last'.outcome = "ok" =>
        /\ resA'.userId = last'.userId
        /\ resA'.salaryPayments = StoredPayments(resA'.userId, resA'.month)
        /\ resA'.totalPaidThisMonth =
             SumField(StoredPayments(resA'.userId, resA'.month), "amount")
        /\ resA'.remainingSalary = resA'.monthlySalary - resA'.totalPaidThisMonth
        /\ resA'.monthlySalary \in { u.monthlySalary : u \in users } ]_vars

\* a balance with a payment was answered while another payment, of another
\* user or of another month, was stored
C17_Witness ==
  /\ last.op = "getWorkerDetails" /\ last.outcome = "ok"
  /\ resA.totalPaidThisMonth > 0
  /\ \E s \in salaryPayments : s \notin resA.salaryPayments

(***************************************************************************)
(* Properties of the expense routes.                                       *)
(***************************************************************************)
\* the Expense rows stored with the type
ExpensesOfType(type) == { e \in expenses : e.type = type }

\* the step answers a POST of the route by adding one row of the type
StoresType(op, type) ==
  last'.op = op =>
    \E e \in expenses' \ expenses :
      expenses' = expenses \cup {e} /\ e.id = last'.res /\ e.type = type

\* the step answers a list route with the rows of the type the other
\* filters select, whatever type the query names
ListsType(op, type) ==
  last'.op = op =>
    /\ \A e \in resA'.body : e.type = type
    /\ resA'.body = FinanceFindAll(ExpensesOfType(type), "", resA'.category,
                                   resA'.startDate, resA'.endDate, "")

\* the step answers a statistics route with the statistics of the rows of
\* the type, whatever type the query names
CountsType(op, type) ==
  last'.op = op =>
    resA'.body = FinanceGetStatistics(ExpensesOfType(type), "", resA'.startDate,
                                      resA'.endDate, type)

\* C18: POST finance/company stores a COMPANY row and POST finance/home a
\* HOME row whatever type the body carries; the list and the statistics of
\* GET finance/company cover only COMPANY rows and those of GET finance/home
\* only HOME rows, whatever type the query string names.
C18_ExpenseTypeFixedByRoute ==
  [][ /\ StoresType("createCompanyExpense", "COMPANY")
      /\ StoresType("createHomeExpense", "HOME")
      /\ ListsType("getCompanyExpenses", "COMPANY")
      /\ ListsType("getHomeExpenses", "HOME")
      /\ CountsType("getCompanyStatistics", "COMPANY")
      /\ CountsType("getHomeStatistics", "HOME") ]_vars

\* the statistics of GET finance/company were asked with type=HOME while
\* rows of both types were stored
C18_Witness ==
  /\ last.op = "getCompanyStatistics"
  /\ resA.queryType = "HOME"
  /\ resA.body.totalRecords > 0
  /\ \E e \in expenses : e.type = "HOME"

(***************************************************************************)
(* Properties of the exception filter.                                     *)
(***************************************************************************)
\* the status the documentation of the filter gives a code
StatusByCode(code) ==
  IF code = "P2002" THEN 409
  ELSE IF code \in {"P2003", "P2011", "P2006", "P2000"} THEN 400
  ELSE IF code = "P2025" THEN 404
  ELSE 500

\* the name of a status
NameOfStatus ==
  [st \in {400, 404, 409, 500} |->
     IF st = 400 THEN "Bad Request"
     ELSE IF st = 404 THEN "Not Found"
     ELSE IF st = 409 THEN "Conflict"
     ELSE "Internal Server Error"]

\* C19: the response to a Prisma known-request error carries the status
\* fixed by its code (P2002: 409; P2003, P2011, P2006, P2000: 400; P2025:
\* 404; P2021, P2022 and any other code: 500), the same statusCode in the
\* body, and the error name of that status.
C19_StatusFixedByCode ==
  last.op = "statement" =>
    /\ resA.status = StatusByCode(last.outcome)
    /\ resA.statusCode = resA.status
    /\ resA.error = NameOfStatus[resA.status]

\* an error with a code the filter does not name was answered 500 while a
\* statement that fails on a unique index was in flight
C19_Witness ==
  /\ last.op = "statement" /\ last.outcome = "P2034"
  /\ resA.status = 500 /\ resA.error = "Internal Server Error"
  /\ \E p \in Procs : req[p].op = "statement" /\ req[p].text = "P2002"

(***************************************************************************)
(* Properties of the attendance derived from work entries alone.           *)
(***************************************************************************)
\* the Work rows of the user and day of an Attendance row
WorkOfDay(a) == { w \in works : w.userId = a.userId /\ w.date = a.date }

\* C20: with createWork and deleteWork alone, every Attendance row is
\* PRESENT when its user has a Work row on its date and ABSENT when the user
\* has none.
C20_StatusFollowsWork ==
  \A a \in attendance :
    a.status = (IF WorkOfDay(a) # {} THEN "PRESENT" ELSE "ABSENT")

(***************************************************************************)
(* Properties of the amounts of the Work rows.                             *)
(***************************************************************************)
\* C21: every Work row has totalAmount = quantity * pricePerUnit, whether
\* createWork stored it or updateWork recomputed it from the supplied fields
\* and the stored values of the fields the body left out.
C21_TotalIsProduct ==
  \A w \in works : w.totalAmount = w.quantity * w.pricePerUnit

\* an update that supplied only a price was answered: its row keeps the
\* quantity 2 it was created with and carries the new price and total
C21_Witness ==
  /\ last.op = "updateWork" /\ last.outcome = "ok"
  /\ \E w \in works :
       w.id = last.id /\ w.quantity = 2 /\ w.pricePerUnit = 3 /\ w.totalAmount = 6

(***************************************************************************)
(* Properties of the link from an Attendance row to a Work row.            *)
(***************************************************************************)
\* Attendance rows that carry a workId
Linked == { a \in attendance : a.workId # 0 }

\* C22: a non-null Attendance.workId names a stored Work row of the same
\* user and date, and no two Attendance rows name the same Work row.
C22_LinkNamesOwnWork ==
  /\ \A a \in Linked :
       \E w \in works : w.id = a.workId /\ w.userId = a.userId /\ w.date = a.date
  /\ \A a, b \in Linked : a.workId = b.workId => a = b

\* a deleteWork was answered: the row of its day lost its link, the row of
\* another day still carries one
C22_Witness ==
  /\ last.op = "deleteWork" /\ last.outcome = "ok"
  /\ Linked # {}
  /\ \E a \in attendance : a.workId = 0 /\ a.status = "ABSENT"

(***************************************************************************)
(* Properties of the updates and deletes addressed by id.                  *)
(***************************************************************************)
\* the updates and deletes by id, and the table each looks its id up in
ByIdOps ==
  {"updateWork", "deleteWork", "updateExpense", "deleteExpense", "updateExport",
   "deleteExport", "updateUser", "deleteUser", "deleteSalaryPayment"}

ByIdTable(op) ==
  CASE op \in {"updateWork", "deleteWork"} -> works
    [] op \in {"updateExpense", "deleteExpense"} -> expenses
    [] op \in {"updateExport", "deleteExport"} -> exports
    [] op \in {"updateUser", "deleteUser"} -> users
    [] OTHER -> salaryPayments

\* the request that enters in this step: op, id, sub, role and dtoRole of
\* the slot it took, or of the answer when it was answered at once
Entering ==
  IF \E p \in Procs : req[p].op = "idle" /\ req'[p].op # "idle"
    THEN req'[CHOOSE p \in Procs : req[p].op = "idle" /\ req'[p].op # "idle"]
    ELSE last'

\* the guard and the controller let the request through to the service
ReachesService(r) ==
  /\ canActivate(r.op, r.role)
  /\ r.op = "updateUser" => ~UpdateForbidden(r.role, r.sub, r.id, r.dtoRole)

\* C23: an update or delete whose service method is called with an id that
\* its table does not hold is answered NotFound in that step, and no table
\* and no id sequence changes.
C23_AbsentIdNotFound ==
  [][(/\ issued' # issued
      /\ Entering.op \in ByIdOps
      /\ ReachesService(Entering)
      /\ Entering.id \notin Ids(ByIdTable(Entering.op)))
     => (/\ last'.op = Entering.op
         /\ last'.outcome = "NotFound"
         /\ UNCHANGED dbVars)]_vars

\* an update of an export that names a new company and a new description
\* was answered NotFound while another export is stored: neither lookup
\* table gained the name or the text
C23_Witness ==
  /\ last.op = "updateExport" /\ last.outcome = "NotFound"
  /\ exports # {}
  /\ last.id \notin Ids(exports)
  /\ ~ \E c \in companies : c.name = "bolt"
  /\ ~ \E d \in descriptions : d.text = "hem"

(***************************************************************************)
(* Properties of the work statistics.                                      *)
(***************************************************************************)
\* the statistics response of the last request and the query it answers
AnsweredStatistics == resA.body
AnsweredQuery == resA.param

\* C24: getWorkStatistics answers with an empty workerBreakdown when a
\* userId filter is set; without one the workerBreakdown has one entry per
\* user, each counting at least one matching Work row, and the sums of its
\* counts, quantities and totalAmounts are the summary's totalRecords,
\* totalQuantity and totalEarnings.
C24_BreakdownAgreesWithSummary ==
  last.op = "getWorkStatistics" =>
    LET b == AnsweredStatistics
        q == AnsweredQuery
    IN /\ Truthy(q.userId) => b.workerBreakdown = {}
       /\ ~Truthy(q.userId) =>
            /\ \A e, f \in b.workerBreakdown : e.userId = f.userId => e = f
            /\ \A e \in b.workerBreakdown : e.count >= 1
            /\ SumField(b.workerBreakdown, "count") = b.summary.totalRecords
            /\ SumField(b.workerBreakdown, "quantity") = b.summary.totalQuantity
            /\ SumField(b.workerBreakdown, "totalAmount") = b.summary.totalEarnings

============================================================================
